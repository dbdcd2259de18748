--------------------------- MODULE RunLockProofs ---------------------------
(***************************************************************************)
(* Proofs about RunLock, for any set of runs and any number of faults.     *)
(*                                                                         *)
(* Exclusion and the text of the file are tied together by LockInv: the    *)
(* states in which a run holds the flock are exactly those in which it is  *)
(* the owner (OwnerHolds); without a fault the file names nobody but a     *)
(* running run (NameIsLive); and every owner that a trying run might be    *)
(* told about is one it has lived through (OwnerSeen).                     *)
(***************************************************************************)
EXTENDS RunLock, TLAPS

OwnerHolds == \A p \in Runs : pc[p] \in Holding <=> owner = p

NameIsLive == faults = 0 /\ content # Nobody => pc[content] = "running"

OwnerSeen ==
    \A p \in Runs : pc[p] \in Attempting /\ owner # Nobody => owner \in seen[p]

LockInv ==
    /\ TypeOK
    /\ OwnerHolds
    /\ HolderIsNamed
    /\ NameIsLive
    /\ OwnerSeen
    /\ RefusalIsJustified
    /\ HolderHeldWithoutFault

LEMMA InitLockInv == Init => LockInv
  BY NobodyAssumption, FaultsAssumption
     DEF Init, LockInv, TypeOK, OwnerHolds, HolderIsNamed, NameIsLive, OwnerSeen,
         RefusalIsJustified, HolderHeldWithoutFault, HolderHeld, PcType,
         Attempting, Holding

LEMMA NextLockInv == LockInv /\ [Next]_lockVars => LockInv'
<1> SUFFICES ASSUME LockInv, [Next]_lockVars
             PROVE  LockInv'
    OBVIOUS
<1> USE NobodyAssumption, FaultsAssumption
<1> USE DEF LockInv, TypeOK, OwnerHolds, HolderIsNamed, NameIsLive, OwnerSeen,
            RefusalIsJustified, HolderHeldWithoutFault, HolderHeld, PcType,
            Attempting, Holding, Goto, SetOwner, Fault
<1>1. ASSUME NEW p \in Runs, Open(p)
      PROVE  LockInv'
      BY <1>1 DEF Open
<1>2. ASSUME NEW p \in Runs, Lock(p)
      PROVE  LockInv'
      BY <1>2 DEF Lock
<1>3. ASSUME NEW p \in Runs, WouldBlock(p)
      PROVE  LockInv'
      BY <1>3 DEF WouldBlock
<1>4. ASSUME NEW p \in Runs, ReportHolder(p)
      PROVE  LockInv'
      BY <1>4 DEF ReportHolder
<1>5. ASSUME NEW p \in Runs, Truncate(p)
      PROVE  LockInv'
      BY <1>5 DEF Truncate
<1>6. ASSUME NEW p \in Runs, WriteHolder(p)
      PROVE  LockInv'
      BY <1>6 DEF WriteHolder
<1>7. ASSUME NEW p \in Runs, AcquireFails(p)
      PROVE  LockInv'
      BY <1>7 DEF AcquireFails
<1>8. ASSUME NEW p \in Runs, ClearHolder(p)
      PROVE  LockInv'
      BY <1>8 DEF ClearHolder
<1>9. ASSUME NEW p \in Runs, ClearFails(p)
      PROVE  LockInv'
      BY <1>9 DEF ClearFails
<1>10. ASSUME NEW p \in Runs, Unlock(p)
       PROVE  LockInv'
      BY <1>10 DEF Unlock
<1>11. ASSUME NEW p \in Runs, Kill(p)
       PROVE  LockInv'
      BY <1>11 DEF Kill
<1>12. CASE UNCHANGED lockVars
      BY <1>12 DEF lockVars
<1>13. QED
      BY <1>1, <1>2, <1>3, <1>4, <1>5, <1>6, <1>7, <1>8, <1>9, <1>10, <1>11,
         <1>12 DEF Next, Proceed

LEMMA SpecLockInv == Spec => []LockInv
  BY InitLockInv, NextLockInv, PTL DEF Spec

LEMMA LockInvExcludes == LockInv => MutualExclusion
  BY DEF LockInv, OwnerHolds, MutualExclusion

\* However many runs are started, killed or failing, at most one of them is
\* between taking and releasing the lock.
THEOREM LockExcludes == Spec => []MutualExclusion
  BY SpecLockInv, LockInvExcludes, PTL

\* While the body of a run executes, the lock file carries its name.
THEOREM LockNamesHolder == Spec => []HolderIsNamed
<1>1. LockInv => HolderIsNamed
      BY DEF LockInv
<1>2. QED
      BY <1>1, SpecLockInv, PTL

\* A run is refused only if another one held the lock while it tried,
\* whatever crashes have left in the file.
THEOREM LockRefusesJustly == Spec => []RefusalIsJustified
<1>1. LockInv => RefusalIsJustified
      BY DEF LockInv
<1>2. QED
      BY <1>1, SpecLockInv, PTL

\* Until the first fault, the holder named to a refused run did hold the lock
\* while it tried.
THEOREM LockReportsTruly == Spec => []HolderHeldWithoutFault
<1>1. LockInv => HolderHeldWithoutFault
      BY DEF LockInv
<1>2. QED
      BY <1>1, SpecLockInv, PTL
=============================================================================
