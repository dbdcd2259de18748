------------------------ MODULE IncludeRewriteProofs ------------------------
(***************************************************************************)
(* Proofs about IncludeRewrite, for any scripts, any shape of the includes *)
(* and any failures: the new includes lead to copies, the copies are the   *)
(* scripts, and the echoed commands can be given back.  The inductive      *)
(* invariant is RewriteInv.                                                *)
(***************************************************************************)
EXTENDS IncludeRewrite, SequenceTheorems, TLAPS

(***************************************************************************)
(* Lines.                                                                  *)
(***************************************************************************)
LEMMA NewCommands ==
  ASSUME NEW c \in Commands
  PROVE  NewCommand(c) \in Commands /\ c # "sql"
  BY Zenon DEF NewCommand, Commands

LEMMA SourceLinesAreLines ==
  SourceLines \subseteq Lines
  BY DEF SourceLines, Lines, LinesAt

LEMMA StatementsAndIncludes ==
  ASSUME NEW line \in SourceLines
  PROVE  /\ line.cmd = "sql" <=> line = Statement
         /\ line.cmd # "sql" => line \in [cmd : Commands, to : Scripts, at : {"source"}]
         /\ line.at = "source"
<1>1. CASE line = Statement
      BY <1>1 DEF Statement
<1>2. CASE line \in [cmd : Commands, to : Scripts, at : {"source"}]
      BY <1>2, NewCommands DEF Statement
<1>3. QED
      BY <1>1, <1>2 DEF SourceLines, LinesAt

LEMMA ImageIsInclude ==
  ASSUME NEW line \in SourceLines, line.cmd # "sql"
  PROVE  /\ line.to \in Scripts
         /\ Image(line) \in Lines
         /\ Image(line).to = line.to
         /\ Image(line).at = "mirror"
         /\ Image(line).cmd # "sql"
<1>1. line \in [cmd : Commands, to : Scripts, at : {"source"}]
      BY StatementsAndIncludes
<1>2. line.cmd \in Commands /\ line.to \in Scripts
      BY <1>1
<1>3. /\ Image(line).cmd = NewCommand(line.cmd)
      /\ Image(line).to = line.to
      /\ Image(line).at = "mirror"
      BY <1>1 DEF Image
<1>4. Image(line) \in [cmd : Commands, to : Scripts, at : {"source", "mirror"}]
      BY <1>1, <1>2, NewCommands DEF Image
<1>5. QED
      BY <1>2, <1>3, <1>4, NewCommands DEF Lines, LinesAt

LEMMA LineImageType ==
  ASSUME NEW line \in SourceLines
  PROVE  /\ LineImage(line) \in Lines
         /\ line.cmd # "sql" => LineImage(line) = Image(line)
         /\ line.cmd = "sql" => LineImage(line) = line /\ line.at = "source"
  BY ImageIsInclude, SourceLinesAreLines, StatementsAndIncludes DEF LineImage

(***************************************************************************)
(* The inductive invariant.                                                *)
(***************************************************************************)
CallType ==
    [script : Scripts \cup {NoScript}, todo : Seq(SourceLines), done : Seq(Lines)]

RewriteTypes ==
    /\ text \in [Scripts -> Seq(SourceLines)]
    /\ parts \in Seq(Seq(SourceLines))
    /\ stack \in Seq(CallType)
    /\ cache \subseteq Scripts
    /\ mirror \in [Scripts -> Seq(Lines) \cup {NoMirror}]
    /\ pre \in Seq(Seq(Lines))
    /\ echo \in [DOMAIN echo -> SourceLines]
    /\ failed \subseteq Scripts

Active == {stack[i].script : i \in DOMAIN stack} \ {NoScript}

\* The calls under way: a part of the phase's script at the bottom, and
\* above it the scripts whose includes have led here.
CallsNest ==
    /\ \A i \in DOMAIN stack :
          /\ stack[i].script = NoScript <=> i = Len(stack)
          /\ i > 1 => /\ stack[i].todo # <<>>
                      /\ stack[i].todo[1].cmd # "sql"
                      /\ stack[i].todo[1].to = stack[i - 1].script
    /\ Len(pre) <= Len(parts)
    /\ stack = <<>> <=> Len(pre) = Len(parts)

\* What became of every visited script.
VisitedOnce ==
    /\ cache \subseteq Copied \cup failed \cup Active
    /\ Active \subseteq cache

Leads(lines) ==
    \A i \in DOMAIN lines : lines[i].at = "mirror" => lines[i].to \in cache

NewIncludesAreVisited ==
    /\ \A i \in DOMAIN stack : Leads(stack[i].done)
    /\ \A p \in DOMAIN pre : Leads(pre[p])
    /\ \A s \in Copied : Leads(mirror[s])

\* The lines that a call is about.
Of(call) == IF call.script = NoScript THEN parts[Len(pre) + 1] ELSE text[call.script]

\* A call has done some of its lines and has the others to do.
Halfway(call, lines) ==
    /\ Len(call.done) + Len(call.todo) = Len(lines)
    /\ \A j \in DOMAIN call.todo : call.todo[j] = lines[Len(call.done) + j]
    /\ failed = {} => \A j \in DOMAIN call.done : call.done[j] = LineImage(lines[j])

CopiesFollow ==
    /\ \A i \in DOMAIN stack : Halfway(stack[i], Of(stack[i]))
    /\ failed = {} =>
          /\ \A p \in DOMAIN pre : pre[p] = ImageOf(parts[p])
          /\ \A s \in Copied : mirror[s] = ImageOf(text[s])

\* The commands of these lines have been replaced.
Echoed(lines, upTo) ==
    \A j \in 1..upTo : lines[j].cmd # "sql" => Image(lines[j]) \in DOMAIN echo

IsOriginal(line) ==
    /\ line.cmd # "sql"
    /\ \/ \E p \in DOMAIN parts : \E j \in DOMAIN parts[p] : line = parts[p][j]
       \/ \E s \in cache : \E j \in DOMAIN text[s] : line = text[s][j]

EchoFollows ==
    /\ \A new \in DOMAIN echo : IsOriginal(echo[new]) /\ Image(echo[new]) = new
    /\ failed = {} =>
          /\ \A i \in DOMAIN stack : Echoed(Of(stack[i]), Len(stack[i].done))
          /\ \A p \in DOMAIN pre : Echoed(parts[p], Len(parts[p]))
          /\ \A s \in Copied : Echoed(text[s], Len(text[s]))

RewriteInv ==
    /\ RewriteTypes
    /\ CallsNest
    /\ VisitedOnce
    /\ NewIncludesAreVisited
    /\ CopiesFollow
    /\ EchoFollows

LEMMA RewriteInitInv ==
  ASSUME Init
  PROVE  RewriteInv
<1>1. PICK visible \in Visible, hidden \in Hidden :
        /\ parts = IF hidden = <<>> THEN <<visible>> ELSE <<visible, hidden>>
        /\ stack = <<Call(NoScript, visible)>>
      BY DEF Init
<1>2. visible \in Seq(SourceLines) /\ hidden \in Seq(SourceLines)
      BY TextAssumption
<1>3. /\ parts \in Seq(Seq(SourceLines))
      /\ Len(parts) \in {1, 2}
      /\ parts[1] = visible
      BY <1>1, <1>2
<1>4. /\ stack \in Seq(CallType)
      /\ Len(stack) = 1
      /\ stack[1].script = NoScript /\ stack[1].todo = visible /\ stack[1].done = <<>>
  <2> DEFINE call == Call(NoScript, visible)
  <2>1. call \in CallType /\ call.script = NoScript /\ call.todo = visible /\ call.done = <<>>
        BY <1>2 DEF Call, CallType
  <2> HIDE DEF call
  <2>2. stack = <<call>>
        BY <1>1 DEF call
  <2>3. QED
        BY <2>1, <2>2
<1>5. RewriteTypes
      BY <1>3, <1>4, TextAssumption DEF Init, RewriteTypes
<1>6. Copied = {}
      BY DEF Init, Copied
<1>7. CallsNest
      BY <1>3, <1>4 DEF Init, CallsNest
<1>8. VisitedOnce /\ NewIncludesAreVisited
      BY <1>4, <1>6 DEF Init, VisitedOnce, Active, NewIncludesAreVisited, Leads
<1>9. Of(stack[1]) = visible
      BY <1>3, <1>4 DEF Of, Init
<1>10. CopiesFollow
  <2>1. DOMAIN stack = {1}
        BY <1>4
  <2>2. /\ stack[1].todo = visible /\ stack[1].done = <<>>
        /\ Len(stack[1].done) = 0 /\ DOMAIN stack[1].done = {}
        BY <1>4
  <2>3. \A j \in DOMAIN visible : visible[j] = visible[0 + j]
        BY <1>2
  <2>4. Halfway(stack[1], visible)
        BY <1>2, <2>2, <2>3 DEF Halfway
  <2>5. QED
        BY <1>6, <1>9, <2>1, <2>4 DEF CopiesFollow, Init
<1>11. EchoFollows
      BY <1>4, <1>6, <1>9 DEF EchoFollows, Echoed, Init
<1>12. QED
      BY <1>5, <1>7, <1>8, <1>10, <1>11 DEF RewriteInv

(***************************************************************************)
(* How a step changes the stack.                                           *)
(***************************************************************************)
LEMMA HeadReplaced ==
  ASSUME NEW S, NEW s \in Seq(S), s # <<>>, NEW e \in S, NEW t, t = <<e>> \o Tail(s)
  PROVE  /\ t \in Seq(S) /\ Len(t) = Len(s) /\ t[1] = e
         /\ \A i \in 2..Len(s) : t[i] = s[i]
<1>1. /\ Tail(s) \in Seq(S) /\ Len(Tail(s)) = Len(s) - 1 /\ Len(s) \in Nat \ {0}
      /\ \A i \in 1..Len(Tail(s)) : Tail(s)[i] = s[i + 1]
      BY HeadTailProperties, EmptySeq
<1>2. <<e>> \in Seq(S) /\ Len(<<e>>) = 1 /\ <<e>>[1] = e
      OBVIOUS
<1>3. /\ t \in Seq(S) /\ Len(t) = 1 + Len(Tail(s))
      /\ \A i \in 1..(1 + Len(Tail(s))) :
            t[i] = IF i <= 1 THEN <<e>>[i] ELSE Tail(s)[i - 1]
      BY <1>1, <1>2, ConcatProperties
<1>4. QED
      BY <1>1, <1>2, <1>3

LEMMA HeadPushed ==
  ASSUME NEW S, NEW s \in Seq(S), NEW e \in S, NEW t, t = <<e>> \o s
  PROVE  /\ t \in Seq(S) /\ Len(t) = Len(s) + 1 /\ t[1] = e
         /\ \A i \in 2..(Len(s) + 1) : t[i] = s[i - 1]
<1> DEFINE h == <<e>>
<1>1. h \in Seq(S) /\ Len(h) = 1 /\ h[1] = e
      OBVIOUS
<1> HIDE DEF h
<1>0. Len(s) \in Nat
      BY LenProperties
<1>2. /\ t \in Seq(S) /\ Len(t) = 1 + Len(s)
      /\ \A i \in 1..(1 + Len(s)) : t[i] = IF i <= 1 THEN h[i] ELSE s[i - 1]
      BY <1>1, ConcatProperties DEF h
<1>3. ASSUME NEW i \in 2..(Len(s) + 1)
      PROVE  t[i] = s[i - 1]
      BY <1>0, <1>2
<1>4. t[1] = e
      BY <1>0, <1>1, <1>2
<1>5. QED
      BY <1>0, <1>2, <1>3, <1>4

LEMMA HeadPopped ==
  ASSUME NEW S, NEW s \in Seq(S), Len(s) > 1, NEW r, r = SubSeq(s, 3, Len(s))
  PROVE  /\ r \in Seq(S) /\ Len(r) = Len(s) - 2
         /\ \A i \in 1..(Len(s) - 2) : r[i] = s[i + 2]
<1>0. Len(s) \in Nat /\ Len(s) > 1 /\ 3 \in Int /\ Len(s) \in Int /\ \A i \in 3..Len(s) : s[i] \in S
      BY LenProperties, ElementOfSeq
<1> DEFINE q == SubSeq(s, 3, Len(s))
<1>a. /\ q \in Seq(S)
      /\ Len(q) = IF 3 <= Len(s) THEN (Len(s) - 3) + 1 ELSE 0
      /\ \A i \in 1..((Len(s) - 3) + 1) : q[i] = s[3 + (i - 1)]
      BY ONLY <1>0, SubSeqProperties
<1>b. r = q
      OBVIOUS
<1> HIDE DEF q
<1>1. /\ r \in Seq(S)
      /\ Len(r) = IF 3 <= Len(s) THEN (Len(s) - 3) + 1 ELSE 0
      /\ \A i \in 1..((Len(s) - 3) + 1) : r[i] = s[3 + (i - 1)]
      BY ONLY <1>a, <1>b, Zenon
<1>2. ASSUME NEW i \in 1..(Len(s) - 2)
      PROVE  r[i] = s[i + 2]
  <2>1. i \in Int /\ 3 + (i - 1) = i + 2
        BY <1>0
  <2>2. i \in 1..((Len(s) - 3) + 1)
        BY ONLY <1>0, <2>1, i \in 1..(Len(s) - 2)
  <2>3. QED
        BY <1>1, <2>1, <2>2
<1>3. Len(r) = Len(s) - 2
  <2>1. Len(r) = IF 3 <= Len(s) THEN (Len(s) - 3) + 1 ELSE 0
        BY <1>1
  <2>2. Len(s) \in Nat /\ Len(s) > 1
        BY <1>0
  <2> DEFINE n == Len(s)
             m == Len(r)
  <2>3. n \in Nat /\ n > 1 /\ m = IF 3 <= n THEN (n - 3) + 1 ELSE 0
        BY <2>1, <2>2
  <2> HIDE DEF n, m
  <2>4. m = n - 2
        BY ONLY <2>3
  <2>5. QED
        BY <2>4 DEF n, m
<1>4. QED
      BY <1>1, <1>2, <1>3

LEMMA PassedCall ==
  ASSUME NEW c \in CallType, c.todo # <<>>, NEW x \in Lines,
         NEW p, p = Passed(c, x)
  PROVE  /\ p \in CallType
         /\ p.script = c.script
         /\ Len(p.todo) = Len(c.todo) - 1
         /\ \A j \in 1..Len(p.todo) : p.todo[j] = c.todo[j + 1]
         /\ Len(p.done) = Len(c.done) + 1
         /\ \A j \in 1..Len(c.done) : p.done[j] = c.done[j]
         /\ p.done[Len(c.done) + 1] = x
<1>1. c.todo \in Seq(SourceLines) /\ c.done \in Seq(Lines)
      BY DEF CallType
<1>2. p.script = c.script /\ p.todo = Tail(c.todo) /\ p.done = Append(c.done, x)
      BY DEF Passed, CallType
<1>3. p \in CallType
  <2>1. Tail(c.todo) \in Seq(SourceLines) /\ Append(c.done, x) \in Seq(Lines)
        BY <1>1
  <2>2. QED
        BY <2>1 DEF Passed, CallType
<1>4. QED
      BY <1>1, <1>2, <1>3

\* The top call, or the one under it if a call returns, passes its line.
Passing(returns, x) ==
    /\ returns \in {0, 1}
    /\ Len(stack) > returns
    /\ stack[1 + returns].todo # <<>>
    /\ x \in Lines
    /\ Len(stack') = Len(stack) - returns
    /\ stack'[1] = Passed(stack[1 + returns], x)
    /\ \A i \in 2..Len(stack') : stack'[i] = stack[i + returns]
    /\ stack' \in Seq(CallType)
    /\ UNCHANGED <<text, parts, pre>>

LEMMA PassingNests ==
  ASSUME RewriteTypes, CallsNest, NEW returns, NEW x, Passing(returns, x)
  PROVE  CallsNest' /\ stack' # <<>>
<1>1. /\ stack[1 + returns] \in CallType /\ 1 + returns \in DOMAIN stack
      /\ x \in Lines /\ stack[1 + returns].todo # <<>> /\ returns \in {0, 1}
      /\ Len(stack) \in Nat /\ Len(stack') = Len(stack) - returns
      /\ stack'[1] = Passed(stack[1 + returns], x)
      BY DEF RewriteTypes, Passing
<1>2. stack'[1].script = stack[1 + returns].script
      BY ONLY <1>1, PassedCall
<1>3. DOMAIN stack' = 1..Len(stack') /\ DOMAIN stack = 1..Len(stack)
      BY DEF RewriteTypes, Passing
<1>4. stack' # <<>> /\ stack # <<>>
      BY <1>1, <1>3 DEF Passing
<1>5. ASSUME NEW i \in DOMAIN stack', i > 1
      PROVE  /\ stack'[i] = stack[i + returns] /\ i + returns \in DOMAIN stack
             /\ i + returns > 1
             /\ stack'[i - 1].script = stack[(i + returns) - 1].script
  <2>1. stack'[i] = stack[i + returns] /\ i + returns \in DOMAIN stack
        BY <1>1, <1>3, <1>5 DEF Passing
  <2>2. CASE i = 2
        BY <1>1, <1>2, <2>1, <2>2
  <2>3. CASE i > 2
    <3>1. stack'[i - 1] = stack[(i - 1) + returns]
          BY <1>1, <1>3, <2>3 DEF Passing
    <3>2. (i - 1) + returns = (i + returns) - 1
          BY <1>1, <1>3
    <3>3. QED
          BY <1>1, <1>5, <2>1, <3>1, <3>2
  <2>4. QED
        BY <1>1, <1>3, <1>5, <2>2, <2>3
<1>6. ASSUME NEW i \in DOMAIN stack'
      PROVE  stack'[i].script = NoScript <=> i = Len(stack')
  <2>1. stack'[i].script = stack[i + returns].script /\ i + returns \in DOMAIN stack
        BY <1>1, <1>2, <1>3, <1>5
  <2>2. stack[i + returns].script = NoScript <=> i + returns = Len(stack)
        BY <2>1 DEF CallsNest
  <2>3. QED
        BY <1>1, <1>3, <2>1, <2>2
<1>7. ASSUME NEW i \in DOMAIN stack', i > 1
      PROVE  /\ stack'[i].todo # <<>> /\ stack'[i].todo[1].cmd # "sql"
             /\ stack'[i].todo[1].to = stack'[i - 1].script
      BY <1>5, <1>7 DEF CallsNest
<1>8. Len(pre') <= Len(parts') /\ (stack' = <<>> <=> Len(pre') = Len(parts'))
      BY <1>4 DEF CallsNest, Passing
<1>9. QED
      BY <1>4, <1>6, <1>7, <1>8 DEF CallsNest

LEMMA CallTypes ==
  ASSUME RewriteTypes, NEW i \in DOMAIN stack
  PROVE  /\ stack[i] \in CallType
         /\ stack[i].todo \in Seq(SourceLines) /\ Len(stack[i].todo) \in Nat
         /\ DOMAIN stack[i].todo = 1..Len(stack[i].todo)
         /\ stack[i].done \in Seq(Lines) /\ Len(stack[i].done) \in Nat
         /\ DOMAIN stack[i].done = 1..Len(stack[i].done)
<1>1. stack[i] \in CallType
      BY DEF RewriteTypes
<1>2. stack[i].todo \in Seq(SourceLines) /\ stack[i].done \in Seq(Lines)
      BY <1>1 DEF CallType
<1>3. QED
      BY <1>1, <1>2, LenProperties

\* What the definition says, in the terms the lemmas below need.
LEMMA PassingFacts ==
  ASSUME RewriteTypes, NEW returns, NEW x, Passing(returns, x)
  PROVE  /\ 1 + returns \in DOMAIN stack
         /\ stack[1 + returns].todo # <<>>
         /\ x \in Lines
         /\ \A i \in DOMAIN stack' \ {1} :
               stack'[i] = stack[i + returns] /\ i + returns \in DOMAIN stack
         /\ 1 \in DOMAIN stack'
         /\ stack'[1].script = stack[1 + returns].script
         /\ stack'[1] \in CallType
         /\ Len(stack'[1].todo) = Len(stack[1 + returns].todo) - 1
         /\ \A j \in 1..Len(stack'[1].todo) :
               stack'[1].todo[j] = stack[1 + returns].todo[j + 1]
         /\ Len(stack'[1].done) = Len(stack[1 + returns].done) + 1
         /\ \A j \in 1..Len(stack[1 + returns].done) :
               stack'[1].done[j] = stack[1 + returns].done[j]
         /\ stack'[1].done[Len(stack[1 + returns].done) + 1] = x
<1>1. /\ returns \in {0, 1} /\ Len(stack) \in Nat /\ Len(stack) > returns
      /\ Len(stack') = Len(stack) - returns
      /\ DOMAIN stack' = 1..Len(stack') /\ DOMAIN stack = 1..Len(stack)
      BY DEF RewriteTypes, Passing
<1>2. 1 + returns \in DOMAIN stack /\ 1 \in DOMAIN stack'
      BY <1>1
<1>3. \A i \in DOMAIN stack' \ {1} :
         stack'[i] = stack[i + returns] /\ i + returns \in DOMAIN stack
      BY <1>1 DEF Passing
<1>4. /\ stack[1 + returns] \in CallType /\ stack[1 + returns].todo # <<>>
      /\ x \in Lines /\ stack'[1] = Passed(stack[1 + returns], x)
      BY <1>2 DEF Passing, RewriteTypes
<1> DEFINE c == stack[1 + returns]
           p == stack'[1]
<1>5. c \in CallType /\ c.todo # <<>> /\ x \in Lines /\ p = Passed(c, x)
      BY <1>4
<1> HIDE DEF c, p
<1>6. /\ p \in CallType
      /\ p.script = c.script
      /\ Len(p.todo) = Len(c.todo) - 1
      /\ \A j \in 1..Len(p.todo) : p.todo[j] = c.todo[j + 1]
      /\ Len(p.done) = Len(c.done) + 1
      /\ \A j \in 1..Len(c.done) : p.done[j] = c.done[j]
      /\ p.done[Len(c.done) + 1] = x
      BY ONLY <1>5, PassedCall
<1>7. QED
      BY <1>2, <1>3, <1>4, <1>6, Zenon DEF c, p

LEMMA PassingLeads ==
  ASSUME RewriteTypes, NEW returns, NEW x, Passing(returns, x),
         \A i \in DOMAIN stack : Leads(stack[i].done),
         cache \subseteq cache', x.at = "mirror" => x.to \in cache'
  PROVE  (\A i \in DOMAIN stack : Leads(stack[i].done))'
<1> DEFINE LeadsNow(lines) ==
             \A j \in DOMAIN lines : lines[j].at = "mirror" => lines[j].to \in cache'
<1>1. ASSUME NEW i \in DOMAIN stack' \ {1}
      PROVE  LeadsNow(stack'[i].done)
  <2>1. stack'[i] = stack[i + returns] /\ i + returns \in DOMAIN stack
        BY PassingFacts
  <2>2. Leads(stack[i + returns].done)
        BY <2>1
  <2>3. QED
        BY <2>1, <2>2 DEF Leads
<1> DEFINE c == stack[1 + returns]
           p == stack'[1]
<1>2. /\ c.done \in Seq(Lines) /\ p.done \in Seq(Lines)
      /\ Len(p.done) = Len(c.done) + 1
      /\ \A j \in 1..Len(c.done) : p.done[j] = c.done[j]
      /\ p.done[Len(c.done) + 1] = x
      /\ Leads(c.done)
  <2>1. 1 + returns \in DOMAIN stack /\ p \in CallType
        BY PassingFacts
  <2>2. c.done \in Seq(Lines) /\ p.done \in Seq(Lines) /\ Leads(c.done)
        BY <2>1, CallTypes DEF CallType
  <2>3. QED
        BY <2>2, PassingFacts
<1> HIDE DEF c, p
<1>3. LeadsNow(p.done)
  <2>1. Len(c.done) \in Nat /\ DOMAIN c.done = 1..Len(c.done) /\ DOMAIN p.done = 1..Len(p.done)
        BY <1>2, LenProperties
  <2>2. ASSUME NEW j \in DOMAIN p.done, p.done[j].at = "mirror"
        PROVE  p.done[j].to \in cache'
    <3>1. CASE j \in 1..Len(c.done)
          BY <1>2, <2>1, <2>2, <3>1 DEF Leads
    <3>2. CASE j = Len(c.done) + 1
          BY <1>2, <2>2, <3>2
    <3>3. QED
          BY <1>2, <2>1, <3>1, <3>2
  <2>3. QED
        BY <2>2
<1>4. QED
      BY <1>1, <1>3 DEF Leads, p

LEMMA PassingOf ==
  ASSUME RewriteTypes, NEW returns, NEW x, Passing(returns, x), NEW i \in DOMAIN stack'
  PROVE  /\ i + returns \in DOMAIN stack
         /\ Of(stack[i])' = Of(stack[i + returns])
<1>1. i + returns \in DOMAIN stack /\ stack'[i].script = stack[i + returns].script
  <2>1. CASE i = 1
        BY <2>1, PassingFacts
  <2>2. CASE i # 1
        BY <2>2, PassingFacts
  <2>3. QED
        BY <2>1, <2>2
<1>2. QED
      BY <1>1 DEF Of, Passing

\* The line that is passed is the next one of those that the call is about.
LEMMA PassedLine ==
  ASSUME RewriteTypes, NEW i \in DOMAIN stack, stack[i].todo # <<>>,
         Halfway(stack[i], Of(stack[i]))
  PROVE  stack[i].todo[1] = Of(stack[i])[Len(stack[i].done) + 1]
<1>1. 1 \in DOMAIN stack[i].todo
      BY CallTypes, EmptySeq
<1>2. QED
      BY <1>1 DEF Halfway

LEMMA PassingFollows ==
  ASSUME RewriteTypes, NEW returns, NEW x, Passing(returns, x),
         \A i \in DOMAIN stack : Halfway(stack[i], Of(stack[i])),
         failed' = {} => failed = {} /\ x = LineImage(stack[1 + returns].todo[1])
  PROVE  (\A i \in DOMAIN stack : Halfway(stack[i], Of(stack[i])))'
<1>1. ASSUME NEW i \in DOMAIN stack' \ {1}
      PROVE  Halfway(stack[i], Of(stack[i]))'
  <2>1. stack'[i] = stack[i + returns] /\ i + returns \in DOMAIN stack
        BY PassingFacts
  <2>2. Halfway(stack[i + returns], Of(stack[i + returns]))
        BY <2>1
  <2>3. Of(stack[i])' = Of(stack[i + returns])
        BY PassingOf
  <2>4. QED
        BY <2>1, <2>2, <2>3 DEF Halfway
<1> DEFINE c == stack[1 + returns]
           p == stack'[1]
           lines == Of(c)
<1>2. /\ Len(c.done) \in Nat /\ Len(c.todo) \in Nat
      /\ DOMAIN c.done = 1..Len(c.done) /\ DOMAIN c.todo = 1..Len(c.todo)
      /\ DOMAIN p.done = 1..Len(p.done) /\ DOMAIN p.todo = 1..Len(p.todo)
  <2>1. 1 + returns \in DOMAIN stack /\ p \in CallType
        BY PassingFacts
  <2>2. p.done \in Seq(Lines) /\ p.todo \in Seq(SourceLines)
        BY <2>1 DEF CallType
  <2>3. QED
        BY <2>1, <2>2, CallTypes, LenProperties
<1>3. /\ Len(p.done) = Len(c.done) + 1
      /\ \A j \in 1..Len(c.done) : p.done[j] = c.done[j]
      /\ p.done[Len(c.done) + 1] = x
      /\ Len(p.todo) = Len(c.todo) - 1
      /\ \A j \in 1..Len(p.todo) : p.todo[j] = c.todo[j + 1]
      BY PassingFacts
<1>4. /\ Len(c.done) + Len(c.todo) = Len(lines)
      /\ \A j \in DOMAIN c.todo : c.todo[j] = lines[Len(c.done) + j]
      /\ failed = {} => \A j \in DOMAIN c.done : c.done[j] = LineImage(lines[j])
      /\ c.todo[1] = lines[Len(c.done) + 1]
  <2>1. 1 + returns \in DOMAIN stack /\ c.todo # <<>>
        BY PassingFacts
  <2>2. Halfway(c, lines)
        BY <2>1
  <2>3. QED
        BY <2>1, <2>2, PassedLine DEF Halfway
<1>5. Of(stack[1])' = lines /\ 1 \in DOMAIN stack'
      BY PassingOf, PassingFacts
<1>6. failed' = {} => failed = {} /\ x = LineImage(c.todo[1])
      OBVIOUS
<1> HIDE DEF c, p, lines
<1> DEFINE cd == Len(c.done)
           ct == Len(c.todo)
           pd == Len(p.done)
           pt == Len(p.todo)
<1>6a. /\ cd \in Nat /\ ct \in Nat
       /\ pd = cd + 1 /\ pt = ct - 1 /\ cd + ct = Len(lines)
      BY <1>2, <1>3, <1>4
<1>7. Len(p.done) + Len(p.todo) = Len(lines)
  <2> HIDE DEF cd, ct, pd, pt
  <2>1. pd + pt = Len(lines)
        BY ONLY <1>6a
  <2>2. QED
        BY <2>1 DEF pd, pt
<1>8. ASSUME NEW j \in DOMAIN p.todo
      PROVE  p.todo[j] = lines[Len(p.done) + j]
  <2>1. j \in Nat /\ j \in 1..Len(p.todo) /\ j + 1 \in DOMAIN c.todo
        BY <1>2, <1>3
  <2>2. c.todo[j + 1] = lines[Len(c.done) + (j + 1)]
        BY <1>4, <2>1
  <2>3. Len(c.done) + (j + 1) = Len(p.done) + j
    <3> HIDE DEF cd, ct, pd, pt
    <3>1. j \in Nat
          BY <2>1
    <3>2. cd + (j + 1) = pd + j
          BY ONLY <1>6a, <3>1
    <3>3. QED
          BY <3>2 DEF cd, pd
  <2>4. QED
        BY <1>3, <2>1, <2>2, <2>3
<1>9. ASSUME failed' = {}, NEW j \in DOMAIN p.done
      PROVE  p.done[j] = LineImage(lines[j])
  <2>1. CASE j \in 1..Len(c.done)
        BY <1>2, <1>3, <1>4, <1>6, <1>9, <2>1
  <2>2. CASE j = Len(c.done) + 1
        BY <1>3, <1>4, <1>6, <1>9, <2>2
  <2>3. QED
        BY <1>2, <1>3, <2>1, <2>2
<1>10. Halfway(stack[1], Of(stack[1]))'
      BY <1>5, <1>7, <1>8, <1>9 DEF Halfway, p
<1>11. QED
      BY <1>1, <1>10

LEMMA PassingEchoes ==
  ASSUME RewriteTypes, NEW returns, NEW x, Passing(returns, x),
         \A i \in DOMAIN stack : Halfway(stack[i], Of(stack[i])),
         \A i \in DOMAIN stack : Echoed(Of(stack[i]), Len(stack[i].done)),
         DOMAIN echo \subseteq DOMAIN echo',
         stack[1 + returns].todo[1].cmd # "sql" =>
            Image(stack[1 + returns].todo[1]) \in DOMAIN echo'
  PROVE  (\A i \in DOMAIN stack : Echoed(Of(stack[i]), Len(stack[i].done)))'
<1>1. ASSUME NEW i \in DOMAIN stack' \ {1}
      PROVE  Echoed(Of(stack[i]), Len(stack[i].done))'
  <2>1. stack'[i] = stack[i + returns] /\ i + returns \in DOMAIN stack
        BY PassingFacts
  <2>2. Echoed(Of(stack[i + returns]), Len(stack[i + returns].done))
        BY <2>1
  <2>3. Of(stack[i])' = Of(stack[i + returns])
        BY PassingOf
  <2>4. QED
        BY <2>1, <2>2, <2>3 DEF Echoed
<1> DEFINE c == stack[1 + returns]
           p == stack'[1]
           lines == Of(c)
<1>2. /\ 1 + returns \in DOMAIN stack /\ c.todo # <<>>
      /\ Len(p.done) = Len(c.done) + 1
      BY PassingFacts
<1>3. Len(c.done) \in Nat
      BY <1>2, CallTypes
<1>4. c.todo[1] = lines[Len(c.done) + 1]
      BY <1>2, PassedLine
<1>5. Echoed(lines, Len(c.done))
      BY <1>2
<1>6. Of(stack[1])' = lines /\ 1 \in DOMAIN stack'
      BY PassingOf, PassingFacts
<1>7. c.todo[1].cmd # "sql" => Image(c.todo[1]) \in DOMAIN echo'
      OBVIOUS
<1> HIDE DEF c, p, lines
<1>8. ASSUME NEW j \in 1..Len(p.done), lines[j].cmd # "sql"
      PROVE  Image(lines[j]) \in DOMAIN echo'
  <2>1. CASE j \in 1..Len(c.done)
        BY <1>5, <1>8, <2>1 DEF Echoed
  <2>2. CASE j = Len(c.done) + 1
        BY <1>4, <1>7, <1>8, <2>2
  <2>3. QED
        BY <1>2, <1>3, <2>1, <2>2
<1>9. Echoed(Of(stack[1]), Len(stack[1].done))'
      BY <1>6, <1>8 DEF Echoed, p
<1>10. QED
      BY <1>1, <1>9

LEMMA PassingActive ==
  ASSUME RewriteTypes, NEW returns, NEW x, Passing(returns, x)
  PROVE  /\ Active' \subseteq Active
         /\ Active \subseteq Active' \cup (IF returns = 1 THEN {stack[1].script} ELSE {})
<1>1. /\ returns \in {0, 1} /\ Len(stack) \in Nat
      /\ Len(stack') = Len(stack) - returns
      /\ DOMAIN stack' = 1..Len(stack') /\ DOMAIN stack = 1..Len(stack)
      BY DEF RewriteTypes, Passing
<1>2. ASSUME NEW i \in DOMAIN stack'
      PROVE  i + returns \in DOMAIN stack /\ stack'[i].script = stack[i + returns].script
  <2>1. CASE i = 1
        BY <2>1, PassingFacts
  <2>2. CASE i # 1
        BY <2>2, PassingFacts
  <2>3. QED
        BY <2>1, <2>2
<1>3. ASSUME NEW i \in DOMAIN stack, i > returns
      PROVE  stack[i].script \in {stack'[n].script : n \in DOMAIN stack'}
  <2>1. i - returns \in DOMAIN stack' /\ (i - returns) + returns = i
        BY <1>1, <1>3
  <2>2. QED
        BY <1>2, <2>1
<1>4. ASSUME NEW i \in DOMAIN stack, ~(i > returns)
      PROVE  returns = 1 /\ i = 1
      BY <1>1, <1>4
<1>5. QED
      BY <1>2, <1>3, <1>4 DEF Active

LEMMA CurrentLine ==
  ASSUME RewriteTypes, HasLine
  PROVE  /\ 1 \in DOMAIN stack /\ Current = stack[1] /\ stack[1].todo # <<>>
         /\ Line = stack[1].todo[1] /\ Line \in SourceLines
<1>1. 1 \in DOMAIN stack /\ Current = stack[1]
  <2>1. Len(stack) \in Nat \ {0}
        BY EmptySeq DEF HasLine, RewriteTypes
  <2>2. QED
        BY <2>1 DEF RewriteTypes, HasLine, Current
<1>2. /\ stack[1].todo # <<>> /\ stack[1].todo \in Seq(SourceLines)
      BY <1>1, CallTypes DEF HasLine
<1>3. stack[1].todo[1] \in SourceLines
      BY <1>2, EmptySeq, ElementOfSeq
<1>4. QED
      BY <1>1, <1>2, <1>3 DEF Line

LEMMA LineIsPassed ==
  ASSUME RewriteTypes, HasLine, NEW x \in Lines,
         stack' = <<Passed(Current, x)>> \o Tail(stack), UNCHANGED <<text, parts, pre>>
  PROVE  Passing(0, x)
<1> DEFINE p == Passed(Current, x)
<1>1. /\ 1 \in DOMAIN stack /\ Current = stack[1] /\ stack[1].todo # <<>>
      /\ stack[1] \in CallType /\ stack \in Seq(CallType)
      BY CurrentLine, CallTypes DEF RewriteTypes
<1>2. p \in CallType
      BY <1>1, PassedCall
<1>3. stack' = <<p>> \o Tail(stack)
      OBVIOUS
<1> HIDE DEF p
<1>4. stack # <<>> /\ Len(stack) \in Nat \ {0}
      BY <1>1, EmptySeq DEF HasLine
<1>5. /\ stack' \in Seq(CallType) /\ Len(stack') = Len(stack) /\ stack'[1] = p
      /\ \A i \in 2..Len(stack) : stack'[i] = stack[i]
      BY ONLY <1>1, <1>2, <1>3, <1>4, HeadReplaced
<1>6. p = Passed(stack[1], x)
      BY <1>1 DEF p
<1>7. QED
      BY <1>1, <1>4, <1>5, <1>6 DEF Passing

LEMMA IncludingLine ==
  ASSUME RewriteTypes, CallsNest, AtEnd, Len(stack) > 1
  PROVE  /\ 1 \in DOMAIN stack /\ Current = stack[1] /\ Current.todo = <<>>
         /\ Current.script \in Scripts /\ Current.script \in Active
         /\ 2 \in DOMAIN stack /\ stack[2].todo # <<>>
         /\ Include = stack[2].todo[1] /\ Include \in SourceLines
         /\ Include.cmd # "sql" /\ Include.to = Current.script
<1>1. /\ Len(stack) \in Nat /\ DOMAIN stack = 1..Len(stack)
      /\ 1 \in DOMAIN stack /\ 2 \in DOMAIN stack /\ Current = stack[1]
      BY DEF RewriteTypes, Current
<1>2. /\ stack[2].todo # <<>> /\ stack[2].todo \in Seq(SourceLines)
      /\ stack[2].todo[1].cmd # "sql" /\ stack[2].todo[1].to = stack[1].script
      BY <1>1, CallTypes DEF CallsNest
<1>3. stack[2].todo[1] \in SourceLines /\ Include = stack[2].todo[1]
      BY <1>2, EmptySeq, ElementOfSeq DEF Include
<1>4. stack[1].script # NoScript
      BY <1>1 DEF CallsNest
<1>5. stack[1].script \in Scripts
      BY <1>1, <1>4, CallTypes DEF CallType
<1>6. QED
      BY <1>1, <1>2, <1>3, <1>4, <1>5 DEF Active, AtEnd

LEMMA IncludeIsPassed ==
  ASSUME RewriteTypes, CallsNest, AtEnd, Len(stack) > 1, NEW x \in Lines,
         stack' = <<Caller(x)>> \o SubSeq(stack, 3, Len(stack)),
         UNCHANGED <<text, parts, pre>>
  PROVE  Passing(1, x)
<1> DEFINE p == Caller(x)
<1>1. /\ 2 \in DOMAIN stack /\ stack[2].todo # <<>>
      /\ stack[2] \in CallType /\ stack \in Seq(CallType) /\ Len(stack) > 1
      BY IncludingLine, CallTypes DEF RewriteTypes
<1>2. p = Passed(stack[2], x)
      BY DEF Caller
<1>3. p \in CallType
      BY <1>1, <1>2, PassedCall
<1>4. stack' = <<p>> \o SubSeq(stack, 3, Len(stack))
      OBVIOUS
<1> HIDE DEF p
<1>5. /\ stack' \in Seq(CallType) /\ Len(stack') = Len(stack) - 1 /\ stack'[1] = p
      /\ \A i \in 2..Len(stack') : stack'[i] = stack[i + 1]
  <2>1. stack \in Seq(CallType) /\ Len(stack) > 1
        BY <1>1
  <2> DEFINE r == SubSeq(stack, 3, Len(stack))
  <2>2. /\ r \in Seq(CallType) /\ Len(r) = Len(stack) - 2
        /\ \A i \in 1..(Len(stack) - 2) : r[i] = stack[i + 2]
        BY ONLY <2>1, HeadPopped
  <2>3. stack' = <<p>> \o r
        BY <1>4
  <2> HIDE DEF r
  <2>4. /\ stack' \in Seq(CallType) /\ Len(stack') = Len(r) + 1 /\ stack'[1] = p
        /\ \A i \in 2..(Len(r) + 1) : stack'[i] = r[i - 1]
        BY ONLY <1>3, <2>2, <2>3, HeadPushed
  <2>5. Len(stack) \in Nat
        BY <2>1
  <2>6. QED
        BY <2>1, <2>2, <2>4, <2>5
<1>6. stack[1 + 1] = stack[2]
      OBVIOUS
<1>7. /\ Len(stack) > 1
      /\ stack[1 + 1].todo # <<>>
      /\ Len(stack') = Len(stack) - 1
      /\ stack'[1] = Passed(stack[1 + 1], x)
      /\ \A i \in 2..Len(stack') : stack'[i] = stack[i + 1]
      /\ stack' \in Seq(CallType)
      /\ 1 \in {0, 1}
      BY <1>1, <1>2, <1>5, <1>6, Zenon
<1>8. UNCHANGED <<text, parts, pre>>
      OBVIOUS
<1>9. QED
      BY ONLY <1>7, <1>8, x \in Lines, Zenon DEF Passing

LEMMA SubstituteFacts ==
  ASSUME RewriteTypes, NEW line \in SourceLines, line.cmd # "sql", Substitute(line)
  PROVE  /\ DOMAIN echo' = DOMAIN echo \cup {Image(line)}
         /\ echo' \in [DOMAIN echo' -> SourceLines]
         /\ echo'[Image(line)] = line
         /\ \A new \in DOMAIN echo \ {Image(line)} : echo'[new] = echo[new]
  BY DEF Substitute, RewriteTypes

\* The lines of a call are a part of the phase's script or a visited script.
LEMMA OfCall ==
  ASSUME RewriteTypes, CallsNest, VisitedOnce, NEW i \in DOMAIN stack
  PROVE  /\ Of(stack[i]) \in Seq(SourceLines)
         /\ stack[i].script = NoScript =>
               Len(pre) + 1 \in DOMAIN parts /\ Of(stack[i]) = parts[Len(pre) + 1]
         /\ stack[i].script # NoScript =>
               stack[i].script \in cache /\ Of(stack[i]) = text[stack[i].script]
<1>1. CASE stack[i].script = NoScript
  <2>1. Len(pre) \in Nat /\ Len(parts) \in Nat /\ DOMAIN parts = 1..Len(parts)
        BY DEF RewriteTypes
  <2>2. stack # <<>>
        BY DEF RewriteTypes
  <2>3. Len(pre) + 1 \in DOMAIN parts
        BY <2>1, <2>2 DEF CallsNest
  <2>4. Of(stack[i]) = parts[Len(pre) + 1]
        BY <1>1 DEF Of
  <2>5. parts[Len(pre) + 1] \in Seq(SourceLines)
        BY <2>1, <2>3, ElementOfSeq DEF RewriteTypes
  <2>6. QED
        BY <1>1, <2>3, <2>4, <2>5
<1>2. CASE stack[i].script # NoScript
  <2>1. stack[i].script \in cache
        BY <1>2 DEF VisitedOnce, Active
  <2>2. Of(stack[i]) = text[stack[i].script] /\ stack[i].script \in Scripts
        BY <1>2, <2>1 DEF Of, RewriteTypes
  <2>3. QED
        BY <1>2, <2>1, <2>2 DEF RewriteTypes
<1>3. QED
      BY <1>1, <1>2

LEMMA FirstOfRest ==
  ASSUME NEW d \in Nat, NEW t \in Nat \ {0}, NEW l \in Nat, d + t = l
  PROVE  d + 1 \in 1..l
  OBVIOUS

LEMMA LineIsOriginal ==
  ASSUME RewriteTypes, CallsNest, VisitedOnce, NEW i \in DOMAIN stack,
         Halfway(stack[i], Of(stack[i])),
         stack[i].todo # <<>>, stack[i].todo[1].cmd # "sql"
  PROVE  IsOriginal(stack[i].todo[1])
<1> DEFINE n == Len(stack[i].done) + 1
           lines == Of(stack[i])
<1>1. stack[i].todo[1] = lines[n]
      BY PassedLine
<1>2. n \in DOMAIN lines
  <2>1. Len(stack[i].done) \in Nat /\ Len(stack[i].todo) \in Nat \ {0}
        BY CallTypes, EmptySeq
  <2>2. lines \in Seq(SourceLines)
        BY OfCall
  <2>3. Len(lines) \in Nat /\ DOMAIN lines = 1..Len(lines)
        BY <2>2, LenProperties
  <2>4. Len(stack[i].done) + Len(stack[i].todo) = Len(lines)
        BY DEF Halfway
  <2>5. n \in 1..Len(lines)
        BY ONLY <2>1, <2>3, <2>4, FirstOfRest
  <2>6. QED
        BY <2>3, <2>5
<1> HIDE DEF n
<1>3. CASE stack[i].script = NoScript
      BY <1>1, <1>2, <1>3, OfCall DEF IsOriginal
<1>4. CASE stack[i].script # NoScript
      BY <1>1, <1>2, <1>4, OfCall DEF IsOriginal
<1>5. QED
      BY <1>3, <1>4

LEMMA DoneIsImage ==
  ASSUME NEW call \in CallType, NEW lines \in Seq(SourceLines),
         Halfway(call, lines), call.todo = <<>>, failed = {}
  PROVE  call.done = ImageOf(lines) /\ Len(call.done) = Len(lines)
<1>1. call.done \in Seq(Lines)
      BY DEF CallType
<1>2. /\ DOMAIN call.done = 1..Len(call.done) /\ Len(call.done) \in Nat
      /\ call.done \in [1..Len(call.done) -> Lines]
      BY <1>1, LenProperties
<1>3. DOMAIN lines = 1..Len(lines) /\ Len(lines) \in Nat
      BY LenProperties
<1>4. Len(call.done) + Len(call.todo) = Len(lines) /\ Len(call.todo) = 0
      BY DEF Halfway
<1>5. Len(call.done) = Len(lines)
      BY <1>2, <1>3, <1>4
<1>6. \A j \in DOMAIN call.done : call.done[j] = LineImage(lines[j])
      BY DEF Halfway
<1>7. call.done = [j \in DOMAIN lines |-> LineImage(lines[j])]
      BY <1>2, <1>3, <1>5, <1>6
<1>8. QED
      BY <1>5, <1>7 DEF ImageOf

LEMMA KeepInv ==
  ASSUME RewriteInv, Keep
  PROVE  RewriteInv'
<1>1. /\ RewriteTypes /\ CallsNest /\ VisitedOnce /\ NewIncludesAreVisited
      /\ CopiesFollow /\ EchoFollows
      BY DEF RewriteInv
<1>2. /\ Line = stack[1].todo[1] /\ Line \in SourceLines /\ Line.cmd = "sql"
      /\ Line \in Lines /\ Line.at = "source" /\ LineImage(Line) = Line
      BY <1>1, CurrentLine, LineImageType, SourceLinesAreLines DEF Keep
<1>3. Passing(0, Line)
      BY <1>1, <1>2, LineIsPassed DEF Keep
<1>4. RewriteTypes'
      BY <1>1, <1>3 DEF Keep, RewriteTypes, Passing
<1>5. CallsNest'
      BY <1>1, <1>3, PassingNests
<1>6. Active' = Active
      BY <1>1, <1>3, PassingActive
<1>7. VisitedOnce'
      BY <1>1, <1>6 DEF Keep, VisitedOnce, Copied
<1>8. (\A i \in DOMAIN stack : Leads(stack[i].done))'
  <2>1. cache \subseteq cache' /\ (Line.at = "mirror" => Line.to \in cache')
        BY <1>2 DEF Keep
  <2>2. \A i \in DOMAIN stack : Leads(stack[i].done)
        BY <1>1 DEF NewIncludesAreVisited
  <2>3. QED
        BY <1>1, <1>3, <2>1, <2>2, PassingLeads
<1>9. NewIncludesAreVisited'
      BY <1>1, <1>8 DEF Keep, NewIncludesAreVisited, Leads, Copied
<1>10. \A i \in DOMAIN stack : Halfway(stack[i], Of(stack[i]))
      BY <1>1 DEF CopiesFollow
<1>11. (\A i \in DOMAIN stack : Halfway(stack[i], Of(stack[i])))'
  <2>1. failed' = {} => failed = {} /\ Line = LineImage(stack[1 + 0].todo[1])
        BY <1>2 DEF Keep
  <2>2. QED
        BY <1>1, <1>3, <1>10, <2>1, PassingFollows
<1>12. CopiesFollow'
      BY <1>1, <1>11 DEF Keep, CopiesFollow, Copied
<1>13. EchoFollows'
  <2>1. CASE failed = {}
    <3>1. \A i \in DOMAIN stack : Echoed(Of(stack[i]), Len(stack[i].done))
          BY <1>1, <2>1 DEF EchoFollows
    <3>2. /\ DOMAIN echo \subseteq DOMAIN echo'
          /\ stack[1 + 0].todo[1].cmd # "sql" =>
                Image(stack[1 + 0].todo[1]) \in DOMAIN echo'
          BY <1>2 DEF Keep
    <3>3. (\A i \in DOMAIN stack : Echoed(Of(stack[i]), Len(stack[i].done)))'
          BY <1>1, <1>3, <1>10, <3>1, <3>2, PassingEchoes
    <3>4. QED
          BY <1>1, <3>3 DEF Keep, EchoFollows, Echoed, Copied, IsOriginal
  <2>2. CASE failed # {}
        BY <1>1, <2>2 DEF Keep, EchoFollows, Echoed, Copied, IsOriginal
  <2>3. QED
        BY <2>1, <2>2
<1>14. QED
      BY <1>4, <1>5, <1>7, <1>9, <1>12, <1>13 DEF RewriteInv

LEMMA OriginalsStay ==
  ASSUME NEW line, IsOriginal(line), UNCHANGED <<text, parts>>, cache \subseteq cache'
  PROVE  IsOriginal(line)'
  BY DEF IsOriginal

LEMMA SubstituteEchoes ==
  ASSUME RewriteTypes, EchoFollows, NEW line \in SourceLines, line.cmd # "sql",
         IsOriginal(line), Substitute(line),
         UNCHANGED <<text, parts>>, cache \subseteq cache'
  PROVE  /\ (\A new \in DOMAIN echo :
                IsOriginal(echo[new]) /\ Image(echo[new]) = new)'
         /\ DOMAIN echo \subseteq DOMAIN echo' /\ Image(line) \in DOMAIN echo'
<1>1. /\ DOMAIN echo' = DOMAIN echo \cup {Image(line)}
      /\ echo'[Image(line)] = line
      /\ \A new \in DOMAIN echo \ {Image(line)} : echo'[new] = echo[new]
      BY SubstituteFacts
<1>2. \A new \in DOMAIN echo : IsOriginal(echo[new]) /\ Image(echo[new]) = new
      BY DEF EchoFollows
<1>3. ASSUME NEW new \in DOMAIN echo'
      PROVE  IsOriginal(echo[new])' /\ Image(echo'[new]) = new
  <2>1. CASE new = Image(line)
    <3>1. echo'[new] = line
          BY <1>1, <2>1
    <3>2. IsOriginal(line)'
          BY OriginalsStay
    <3>3. QED
          BY <2>1, <3>1, <3>2 DEF IsOriginal
  <2>2. CASE new # Image(line)
    <3>1. echo'[new] = echo[new] /\ new \in DOMAIN echo
          BY <1>1, <2>2
    <3>2. IsOriginal(echo[new]) /\ Image(echo[new]) = new
          BY <1>2, <3>1
    <3>3. QED
          BY <3>1, <3>2 DEF IsOriginal
  <2>3. QED
        BY <2>1, <2>2
<1>4. QED
      BY <1>1, <1>3

LEMMA ReuseInv ==
  ASSUME RewriteInv, Reuse
  PROVE  RewriteInv'
<1>1. /\ RewriteTypes /\ CallsNest /\ VisitedOnce /\ NewIncludesAreVisited
      /\ CopiesFollow /\ EchoFollows
      BY DEF RewriteInv
<1>2. /\ 1 \in DOMAIN stack /\ stack[1].todo # <<>>
      /\ Line = stack[1].todo[1] /\ Line \in SourceLines /\ Line.cmd # "sql"
      BY <1>1, CurrentLine DEF Reuse
<1>3. /\ Image(Line) \in Lines /\ LineImage(Line) = Image(Line)
      /\ Image(Line).to = Line.to /\ Line.to \in cache
      BY <1>2, ImageIsInclude, LineImageType DEF Reuse, Visited
<1>4. Passing(0, Image(Line))
      BY <1>1, <1>3, LineIsPassed DEF Reuse
<1>5. \A i \in DOMAIN stack : Halfway(stack[i], Of(stack[i]))
      BY <1>1 DEF CopiesFollow
<1>6. IsOriginal(Line)
      BY <1>1, <1>2, <1>5, LineIsOriginal
<1>7. /\ (\A new \in DOMAIN echo : IsOriginal(echo[new]) /\ Image(echo[new]) = new)'
      /\ DOMAIN echo \subseteq DOMAIN echo' /\ Image(Line) \in DOMAIN echo'
      BY <1>1, <1>2, <1>6, SubstituteEchoes DEF Reuse
<1>8. RewriteTypes'
  <2>1. echo' \in [DOMAIN echo' -> SourceLines]
        BY <1>1, <1>2, SubstituteFacts DEF Reuse
  <2>2. QED
        BY <1>1, <1>4, <2>1 DEF Reuse, RewriteTypes, Passing
<1>9. CallsNest'
      BY <1>1, <1>4, PassingNests
<1>10. VisitedOnce'
  <2>1. Active' = Active
        BY <1>1, <1>4, PassingActive
  <2>2. QED
        BY <1>1, <2>1 DEF Reuse, VisitedOnce, Copied
<1>11. NewIncludesAreVisited'
  <2>1. cache \subseteq cache' /\ (Image(Line).at = "mirror" => Image(Line).to \in cache')
        BY <1>3 DEF Reuse
  <2>2. \A i \in DOMAIN stack : Leads(stack[i].done)
        BY <1>1 DEF NewIncludesAreVisited
  <2>3. (\A i \in DOMAIN stack : Leads(stack[i].done))'
        BY <1>1, <1>4, <2>1, <2>2, PassingLeads
  <2>4. QED
        BY <1>1, <2>3 DEF Reuse, NewIncludesAreVisited, Leads, Copied
<1>12. CopiesFollow'
  <2>1. failed' = {} => failed = {} /\ Image(Line) = LineImage(stack[1 + 0].todo[1])
        BY <1>2, <1>3 DEF Reuse
  <2>2. (\A i \in DOMAIN stack : Halfway(stack[i], Of(stack[i])))'
        BY <1>1, <1>4, <1>5, <2>1, PassingFollows
  <2>3. QED
        BY <1>1, <2>2 DEF Reuse, CopiesFollow, Copied
<1>13. EchoFollows'
  <2>1. CASE failed = {}
    <3>1. \A i \in DOMAIN stack : Echoed(Of(stack[i]), Len(stack[i].done))
          BY <1>1, <2>1 DEF EchoFollows
    <3>2. /\ DOMAIN echo \subseteq DOMAIN echo'
          /\ stack[1 + 0].todo[1].cmd # "sql" =>
                Image(stack[1 + 0].todo[1]) \in DOMAIN echo'
          BY <1>2, <1>7
    <3>3. (\A i \in DOMAIN stack : Echoed(Of(stack[i]), Len(stack[i].done)))'
          BY <1>1, <1>4, <1>5, <3>1, <3>2, PassingEchoes
    <3>4. /\ \A p \in DOMAIN pre : Echoed(parts[p], Len(parts[p]))
          /\ \A s \in Copied : Echoed(text[s], Len(text[s]))
          BY <1>1, <2>1 DEF EchoFollows
    <3>5. /\ (\A p \in DOMAIN pre : Echoed(parts[p], Len(parts[p])))'
          /\ (\A s \in Copied : Echoed(text[s], Len(text[s])))'
          BY <1>7, <3>4 DEF Reuse, Echoed, Copied
    <3>6. QED
          BY <1>7, <3>3, <3>5 DEF EchoFollows
  <2>2. CASE failed # {}
        BY <1>7, <2>2 DEF Reuse, EchoFollows
  <2>3. QED
        BY <2>1, <2>2
<1>14. QED
      BY <1>8, <1>9, <1>10, <1>11, <1>12, <1>13 DEF RewriteInv

LEMMA CannotReadInv ==
  ASSUME RewriteInv, CannotRead
  PROVE  RewriteInv'
<1>1. /\ RewriteTypes /\ CallsNest /\ VisitedOnce /\ NewIncludesAreVisited
      /\ CopiesFollow /\ EchoFollows
      BY DEF RewriteInv
<1>2. /\ Line \in SourceLines /\ Line.cmd # "sql" /\ Line.at = "source"
      /\ Line \in Lines /\ Line.to \in Scripts
      BY <1>1, CurrentLine, ImageIsInclude, StatementsAndIncludes, SourceLinesAreLines
      DEF CannotRead
<1>3. Passing(0, Line)
      BY <1>1, <1>2, LineIsPassed DEF CannotRead
<1>4. failed' # {} /\ cache \subseteq cache'
      BY DEF CannotRead
<1>5. RewriteTypes'
      BY <1>1, <1>2, <1>3 DEF CannotRead, RewriteTypes, Passing
<1>6. CallsNest'
      BY <1>1, <1>3, PassingNests
<1>7. VisitedOnce'
  <2>1. Active' = Active
        BY <1>1, <1>3, PassingActive
  <2>2. QED
        BY <1>1, <2>1 DEF CannotRead, VisitedOnce, Copied
<1>8. NewIncludesAreVisited'
  <2>1. Line.at = "mirror" => Line.to \in cache'
        BY <1>2
  <2>2. \A i \in DOMAIN stack : Leads(stack[i].done)
        BY <1>1 DEF NewIncludesAreVisited
  <2>3. (\A i \in DOMAIN stack : Leads(stack[i].done))'
        BY <1>1, <1>3, <1>4, <2>1, <2>2, PassingLeads
  <2>4. QED
        BY <1>1, <1>4, <2>3 DEF CannotRead, NewIncludesAreVisited, Leads, Copied
<1>9. CopiesFollow'
  <2>1. \A i \in DOMAIN stack : Halfway(stack[i], Of(stack[i]))
        BY <1>1 DEF CopiesFollow
  <2>2. (\A i \in DOMAIN stack : Halfway(stack[i], Of(stack[i])))'
        BY <1>1, <1>3, <1>4, <2>1, PassingFollows
  <2>3. QED
        BY <1>4, <2>2 DEF CopiesFollow
<1>10. EchoFollows'
  <2>1. \A new \in DOMAIN echo : IsOriginal(echo[new]) /\ Image(echo[new]) = new
        BY <1>1 DEF EchoFollows
  <2>2. \A new \in DOMAIN echo : IsOriginal(echo[new])'
        BY <1>4, <2>1, OriginalsStay DEF CannotRead
  <2>3. QED
        BY <1>4, <2>1, <2>2 DEF CannotRead, EchoFollows
<1>11. QED
      BY <1>5, <1>6, <1>7, <1>8, <1>9, <1>10 DEF RewriteInv

LEMMA EnterInv ==
  ASSUME RewriteInv, Enter
  PROVE  RewriteInv'
<1>1. /\ RewriteTypes /\ CallsNest /\ VisitedOnce /\ NewIncludesAreVisited
      /\ CopiesFollow /\ EchoFollows
      BY DEF RewriteInv
<1> DEFINE call == Call(Line.to, text[Line.to])
<1>2. /\ 1 \in DOMAIN stack /\ stack[1].todo # <<>>
      /\ Line = stack[1].todo[1] /\ Line \in SourceLines /\ Line.cmd # "sql"
      /\ Line.to \in Scripts
      BY <1>1, CurrentLine, ImageIsInclude DEF Enter
<1>3. text[Line.to] \in Seq(SourceLines) /\ <<>> \in Seq(Lines)
      BY <1>1, <1>2, EmptySeq DEF RewriteTypes
<1>4. /\ call \in CallType
      /\ call.script = Line.to /\ call.todo = text[Line.to] /\ call.done = <<>>
      BY <1>2, <1>3 DEF Call, CallType
<1>5. stack' = <<call>> \o stack /\ stack \in Seq(CallType)
      BY <1>1 DEF Enter, RewriteTypes
<1> HIDE DEF call
<1>6. /\ stack' \in Seq(CallType) /\ Len(stack') = Len(stack) + 1 /\ stack'[1] = call
      /\ \A i \in 2..(Len(stack) + 1) : stack'[i] = stack[i - 1]
      BY ONLY <1>4, <1>5, HeadPushed
<1>7. /\ Len(stack) \in Nat \ {0}
      /\ DOMAIN stack = 1..Len(stack) /\ DOMAIN stack' = 1..(Len(stack) + 1)
      BY <1>2, <1>5, <1>6, LenProperties
<1>8. ASSUME NEW i \in DOMAIN stack' \ {1}
      PROVE  /\ stack'[i] = stack[i - 1] /\ i - 1 \in DOMAIN stack
             /\ Of(stack[i])' = Of(stack[i - 1])
      BY <1>6, <1>7 DEF Of, Enter
<1>9. /\ cache' = cache \cup {Line.to}
      /\ UNCHANGED <<text, parts, mirror, pre, echo, failed>>
      BY DEF Enter
<1>10. Line.to # NoScript
      BY <1>2, ScriptAssumption
<1>11. Of(stack[1])' = text[Line.to]
      BY <1>4, <1>6, <1>9, <1>10 DEF Of
<1>12. RewriteTypes'
      BY <1>1, <1>2, <1>6, <1>9 DEF RewriteTypes
<1>13. CallsNest'
  <2>1. ASSUME NEW i \in DOMAIN stack'
        PROVE  stack'[i].script = NoScript <=> i = Len(stack')
    <3>1. CASE i = 1
          BY <1>4, <1>6, <1>7, <1>10, <3>1
    <3>2. CASE i # 1
      <4>1. stack[i - 1].script = NoScript <=> i - 1 = Len(stack)
            BY <1>1, <1>8, <3>2 DEF CallsNest
      <4>2. QED
            BY <1>6, <1>7, <1>8, <3>2, <4>1
    <3>3. QED
          BY <3>1, <3>2
  <2>2. ASSUME NEW i \in DOMAIN stack', i > 1
        PROVE  /\ stack'[i].todo # <<>> /\ stack'[i].todo[1].cmd # "sql"
               /\ stack'[i].todo[1].to = stack'[i - 1].script
    <3>1. stack'[i] = stack[i - 1] /\ i - 1 \in DOMAIN stack
          BY <1>8, <2>2
    <3>2. CASE i = 2
      <4>1. stack'[2] = stack[1] /\ stack'[2 - 1] = call
            BY <1>6, <3>1, <3>2
      <4>2. QED
            BY <1>2, <1>4, <3>2, <4>1
    <3>3. CASE i # 2
      <4>1. i - 1 > 1 /\ i - 1 \in DOMAIN stack' \ {1}
            BY <1>7, <2>2, <3>3
      <4>2. stack'[i - 1] = stack[(i - 1) - 1]
            BY <1>8, <4>1
      <4>3. /\ stack[i - 1].todo # <<>> /\ stack[i - 1].todo[1].cmd # "sql"
            /\ stack[i - 1].todo[1].to = stack[(i - 1) - 1].script
            BY <1>1, <3>1, <4>1 DEF CallsNest
      <4>4. QED
            BY <3>1, <4>2, <4>3
    <3>4. QED
          BY <3>2, <3>3
  <2>3. /\ Len(pre') <= Len(parts')
        /\ stack' = <<>> <=> Len(pre') = Len(parts')
    <3>1. stack # <<>> /\ stack' # <<>>
          BY <1>6, <1>7
    <3>2. QED
          BY <1>1, <1>9, <3>1 DEF CallsNest
  <2>4. QED
        BY <2>1, <2>2, <2>3 DEF CallsNest
<1>14. VisitedOnce'
  <2>1. Active' = Active \cup {Line.to}
    <3>1. ASSUME NEW i \in DOMAIN stack'
          PROVE  stack'[i].script \in Active \cup {Line.to, NoScript}
          BY <1>4, <1>6, <1>8 DEF Active
    <3>2. ASSUME NEW i \in DOMAIN stack
          PROVE  stack[i].script \in {stack'[j].script : j \in DOMAIN stack'}
      <4>1. i + 1 \in DOMAIN stack' \ {1} /\ (i + 1) - 1 = i
            BY <1>7
      <4>2. QED
            BY <1>8, <4>1
    <3>3. Line.to \in Active'
          BY <1>4, <1>6, <1>7, <1>10 DEF Active
    <3>4. QED
          BY <3>1, <3>2, <3>3 DEF Active
  <2>2. QED
        BY <1>1, <1>9, <2>1 DEF VisitedOnce, Copied
<1>15. NewIncludesAreVisited'
  <2>1. ASSUME NEW i \in DOMAIN stack'
        PROVE  Leads(stack[i].done)'
    <3>1. CASE i = 1
          BY <1>4, <1>6, <3>1 DEF Leads
    <3>2. CASE i # 1
          BY <1>1, <1>8, <1>9, <3>2 DEF NewIncludesAreVisited, Leads
    <3>3. QED
          BY <3>1, <3>2
  <2>2. QED
        BY <1>1, <1>9, <2>1 DEF NewIncludesAreVisited, Leads, Copied
<1>16. CopiesFollow'
  <2> DEFINE lines == text[Line.to]
  <2>1. /\ Len(call.done) + Len(call.todo) = Len(lines)
        /\ \A j \in DOMAIN call.todo : call.todo[j] = lines[Len(call.done) + j]
        /\ DOMAIN call.done = {}
    <3>1. call.todo = lines /\ call.done = <<>> /\ lines \in Seq(SourceLines)
          BY <1>3, <1>4
    <3> HIDE DEF lines
    <3>2. Len(lines) \in Nat /\ DOMAIN lines = 1..Len(lines)
          BY <3>1, LenProperties
    <3>3. \A j \in DOMAIN lines : 0 + j = j
          BY <3>2
    <3>4. QED
          BY <3>1, <3>2, <3>3
  <2>2. ASSUME NEW i \in DOMAIN stack'
        PROVE  Halfway(stack[i], Of(stack[i]))'
    <3>1. CASE i = 1
          BY <1>6, <1>11, <2>1, <3>1 DEF Halfway
    <3>2. CASE i # 1
      <4>1. Halfway(stack[i - 1], Of(stack[i - 1]))
            BY <1>1, <1>8, <3>2 DEF CopiesFollow
      <4>2. stack'[i] = stack[i - 1] /\ Of(stack[i])' = Of(stack[i - 1]) /\ failed' = failed
            BY <1>8, <1>9, <3>2
      <4>3. QED
            BY <4>1, <4>2 DEF Halfway
    <3>3. QED
          BY <3>1, <3>2
  <2>3. QED
        BY <1>1, <1>9, <2>2 DEF CopiesFollow, Copied
<1>17. EchoFollows'
  <2>1. ASSUME failed = {}, NEW i \in DOMAIN stack'
        PROVE  Echoed(Of(stack[i]), Len(stack[i].done))'
    <3>1. CASE i = 1
          BY <1>4, <1>6, <3>1 DEF Echoed
    <3>2. CASE i # 1
          BY <1>1, <1>8, <1>9, <2>1, <3>2 DEF EchoFollows, Echoed
    <3>3. QED
          BY <3>1, <3>2
  <2>2. \A new \in DOMAIN echo : IsOriginal(echo[new])'
        BY <1>1, <1>9, OriginalsStay DEF EchoFollows
  <2>3. QED
        BY <1>1, <1>9, <2>1, <2>2 DEF EchoFollows, Echoed, Copied
<1>18. QED
      BY <1>12, <1>13, <1>14, <1>15, <1>16, <1>17 DEF RewriteInv

LEMMA WriteInv ==
  ASSUME RewriteInv, Write
  PROVE  RewriteInv'
<1>1. /\ RewriteTypes /\ CallsNest /\ VisitedOnce /\ NewIncludesAreVisited
      /\ CopiesFollow /\ EchoFollows
      BY DEF RewriteInv
<1>2. AtEnd /\ Len(stack) > 1
      BY DEF Write
<1>3. /\ 1 \in DOMAIN stack /\ Current = stack[1] /\ Current.todo = <<>>
      /\ Current.script \in Scripts /\ Current.script \in Active
      /\ 2 \in DOMAIN stack /\ stack[2].todo # <<>>
      /\ Include = stack[2].todo[1] /\ Include \in SourceLines
      /\ Include.cmd # "sql" /\ Include.to = Current.script
      BY <1>1, <1>2, IncludingLine
<1>4. /\ Image(Include) \in Lines /\ LineImage(Include) = Image(Include)
      /\ Image(Include).to = Current.script
      BY <1>3, ImageIsInclude, LineImageType
<1>5. Passing(1, Image(Include))
      BY <1>1, <1>2, <1>4, IncludeIsPassed DEF Write
<1>6. \A i \in DOMAIN stack : Halfway(stack[i], Of(stack[i]))
      BY <1>1 DEF CopiesFollow
<1>7. IsOriginal(Include)
      BY <1>1, <1>3, <1>6, LineIsOriginal
<1>8. /\ (\A new \in DOMAIN echo : IsOriginal(echo[new]) /\ Image(echo[new]) = new)'
      /\ DOMAIN echo \subseteq DOMAIN echo' /\ Image(Include) \in DOMAIN echo'
      BY <1>1, <1>3, <1>7, SubstituteEchoes DEF Write
<1>9. UNCHANGED <<text, parts, cache, pre, failed>>
      BY DEF Write
<1> DEFINE script == Current.script
           copy == Current.done
<1>10. /\ mirror' = [mirror EXCEPT ![script] = copy]
       /\ copy \in Seq(Lines) /\ copy # NoMirror /\ script \in Scripts
       BY <1>1, <1>3, CallTypes, TextAssumption DEF Write
<1>11. stack[1].script = script /\ stack[1].done = copy /\ stack[1].todo = <<>>
       BY <1>3
<1>12. script \in cache
       BY <1>1, <1>3 DEF VisitedOnce
<1>13. Of(stack[1]) = text[script] /\ text[script] \in Seq(SourceLines)
  <2>1. script # NoScript
        BY <1>3 DEF Active
  <2>2. QED
        BY <1>1, <1>3, <1>11, <2>1, OfCall
<1>14. failed = {} => copy = ImageOf(text[script]) /\ Len(copy) = Len(text[script])
  <2>1. Halfway(stack[1], text[script])
        BY <1>3, <1>6, <1>13
  <2>2. stack[1] \in CallType
        BY <1>1, <1>3, CallTypes
  <2>3. QED
        BY <1>11, <1>13, <2>1, <2>2, DoneIsImage
<1> HIDE DEF script, copy
<1>15. /\ Copied' = Copied \cup {script}
       /\ mirror'[script] = copy
       /\ \A s \in Copied \ {script} : mirror'[s] = mirror[s]
       BY <1>1, <1>10 DEF Copied, RewriteTypes
<1>16. RewriteTypes'
  <2>1. echo' \in [DOMAIN echo' -> SourceLines]
        BY <1>1, <1>3, SubstituteFacts DEF Write
  <2>2. mirror' \in [Scripts -> Seq(Lines) \cup {NoMirror}]
        BY <1>1, <1>10 DEF RewriteTypes
  <2>3. QED
        BY <1>1, <1>5, <1>9, <2>1, <2>2 DEF RewriteTypes, Passing
<1>17. CallsNest'
       BY <1>1, <1>5, PassingNests
<1>18. VisitedOnce'
  <2>1. Active' \subseteq Active /\ Active \subseteq Active' \cup {script}
        BY <1>1, <1>5, <1>11, PassingActive
  <2>2. QED
        BY <1>1, <1>9, <1>15, <2>1 DEF VisitedOnce
<1>19. NewIncludesAreVisited'
  <2>1. cache \subseteq cache' /\ (Image(Include).at = "mirror" => Image(Include).to \in cache')
        BY <1>4, <1>9, <1>12 DEF script
  <2>2. \A i \in DOMAIN stack : Leads(stack[i].done)
        BY <1>1 DEF NewIncludesAreVisited
  <2>3. (\A i \in DOMAIN stack : Leads(stack[i].done))'
        BY <1>1, <1>5, <2>1, <2>2, PassingLeads
  <2>4. Leads(copy)
        BY <1>3, <1>11, <2>2
  <2>5. ASSUME NEW s \in Copied'
        PROVE  Leads(mirror[s])'
    <3>1. CASE s = script
          BY <1>9, <1>15, <2>4, <3>1 DEF Leads
    <3>2. CASE s # script
          BY <1>1, <1>9, <1>15, <3>2 DEF NewIncludesAreVisited, Leads
    <3>3. QED
          BY <3>1, <3>2
  <2>6. QED
        BY <1>1, <1>9, <2>3, <2>5 DEF NewIncludesAreVisited, Leads
<1>20. CopiesFollow'
  <2>1. failed' = {} =>
           failed = {} /\ Image(Include) = LineImage(stack[1 + 1].todo[1])
        BY <1>3, <1>4, <1>9
  <2>2. (\A i \in DOMAIN stack : Halfway(stack[i], Of(stack[i])))'
        BY <1>1, <1>5, <1>6, <2>1, PassingFollows
  <2>3. ASSUME failed = {}, NEW s \in Copied'
        PROVE  mirror'[s] = ImageOf(text[s])
        BY <1>1, <1>14, <1>15, <2>3 DEF CopiesFollow
  <2>4. QED
        BY <1>1, <1>9, <2>2, <2>3 DEF CopiesFollow, ImageOf
<1>21. EchoFollows'
  <2>1. CASE failed = {}
    <3>1. \A i \in DOMAIN stack : Echoed(Of(stack[i]), Len(stack[i].done))
          BY <1>1, <2>1 DEF EchoFollows
    <3>2. /\ DOMAIN echo \subseteq DOMAIN echo'
          /\ stack[1 + 1].todo[1].cmd # "sql" =>
                Image(stack[1 + 1].todo[1]) \in DOMAIN echo'
          BY <1>3, <1>8
    <3>3. (\A i \in DOMAIN stack : Echoed(Of(stack[i]), Len(stack[i].done)))'
          BY <1>1, <1>5, <1>6, <3>1, <3>2, PassingEchoes
    <3>4. Echoed(text[script], Len(text[script]))
          BY <1>3, <1>11, <1>13, <1>14, <2>1, <3>1
    <3>5. ASSUME NEW s \in Copied'
          PROVE  Echoed(text[s], Len(text[s]))
          BY <1>1, <1>15, <2>1, <3>4 DEF EchoFollows
    <3>6. (\A s \in Copied : Echoed(text[s], Len(text[s])))'
          BY <1>8, <1>9, <3>5 DEF Echoed
    <3>7. (\A p \in DOMAIN pre : Echoed(parts[p], Len(parts[p])))'
          BY <1>1, <1>8, <1>9, <2>1 DEF EchoFollows, Echoed
    <3>8. QED
          BY <1>8, <3>3, <3>6, <3>7 DEF EchoFollows
  <2>2. CASE failed # {}
        BY <1>8, <1>9, <2>2 DEF EchoFollows
  <2>3. QED
        BY <2>1, <2>2
<1>22. QED
       BY <1>16, <1>17, <1>18, <1>19, <1>20, <1>21 DEF RewriteInv

LEMMA CannotWriteInv ==
  ASSUME RewriteInv, CannotWrite
  PROVE  RewriteInv'
<1>1. /\ RewriteTypes /\ CallsNest /\ VisitedOnce /\ NewIncludesAreVisited
      /\ CopiesFollow /\ EchoFollows
      BY DEF RewriteInv
<1>2. AtEnd /\ Len(stack) > 1
      BY DEF CannotWrite
<1>3. /\ Current = stack[1] /\ Current.script \in Scripts
      /\ Include \in SourceLines /\ Include \in Lines /\ Include.at = "source"
      BY <1>1, <1>2, IncludingLine, SourceLinesAreLines, StatementsAndIncludes
<1>4. Passing(1, Include)
      BY <1>1, <1>2, <1>3, IncludeIsPassed DEF CannotWrite
<1>5. /\ failed' = failed \cup {Current.script}
      /\ UNCHANGED <<text, parts, cache, mirror, pre, echo>>
      BY DEF CannotWrite
<1>6. RewriteTypes'
      BY <1>1, <1>3, <1>4, <1>5 DEF RewriteTypes, Passing
<1>7. CallsNest'
      BY <1>1, <1>4, PassingNests
<1>8. VisitedOnce'
  <2>1. Active' \subseteq Active /\ Active \subseteq Active' \cup {Current.script}
        BY <1>1, <1>3, <1>4, PassingActive
  <2>2. QED
        BY <1>1, <1>5, <2>1 DEF VisitedOnce, Copied
<1>9. NewIncludesAreVisited'
  <2>1. cache \subseteq cache' /\ (Include.at = "mirror" => Include.to \in cache')
        BY <1>3, <1>5
  <2>2. \A i \in DOMAIN stack : Leads(stack[i].done)
        BY <1>1 DEF NewIncludesAreVisited
  <2>3. (\A i \in DOMAIN stack : Leads(stack[i].done))'
        BY <1>1, <1>4, <2>1, <2>2, PassingLeads
  <2>4. QED
        BY <1>1, <1>5, <2>3 DEF NewIncludesAreVisited, Leads, Copied
<1>10. CopiesFollow'
  <2>1. \A i \in DOMAIN stack : Halfway(stack[i], Of(stack[i]))
        BY <1>1 DEF CopiesFollow
  <2>2. (\A i \in DOMAIN stack : Halfway(stack[i], Of(stack[i])))'
        BY <1>1, <1>4, <1>5, <2>1, PassingFollows
  <2>3. QED
        BY <1>5, <2>2 DEF CopiesFollow
<1>11. EchoFollows'
  <2>1. \A new \in DOMAIN echo : IsOriginal(echo[new]) /\ Image(echo[new]) = new
        BY <1>1 DEF EchoFollows
  <2>2. \A new \in DOMAIN echo : IsOriginal(echo[new])'
        BY <1>5, <2>1, OriginalsStay
  <2>3. QED
        BY <1>5, <2>1, <2>2 DEF EchoFollows
<1>12. QED
       BY <1>6, <1>7, <1>8, <1>9, <1>10, <1>11 DEF RewriteInv

LEMMA NextCount ==
  ASSUME NEW n \in Nat, NEW m \in Nat
  PROVE  /\ n <= m /\ n # m => n < m /\ n + 1 \in 1..m
         /\ n < m => n + 1 <= m
  OBVIOUS

\* When a part is finished, either all are or the next one is begun.
LEMMA NextPart ==
  ASSUME RewriteTypes, CallsNest, FinishPart
  PROVE  /\ DOMAIN stack = {1} /\ Current = stack[1] /\ stack[1].todo = <<>>
         /\ stack[1].script = NoScript
         /\ stack[1].done \in Seq(Lines) /\ stack[1] \in CallType
         /\ pre' \in Seq(Seq(Lines)) /\ Len(pre') = Len(pre) + 1
         /\ Len(pre) \in Nat /\ Len(parts) \in Nat /\ Len(pre') <= Len(parts)
         /\ \A p \in DOMAIN pre : pre'[p] = pre[p]
         /\ DOMAIN pre' = DOMAIN pre \cup {Len(pre) + 1}
         /\ pre'[Len(pre) + 1] = stack[1].done
         /\ \/ Len(pre') = Len(parts) /\ stack' = <<>>
            \/ /\ Len(pre') < Len(parts)
               /\ parts[Len(pre') + 1] \in Seq(SourceLines)
               /\ stack' \in Seq(CallType) /\ DOMAIN stack' = {1} /\ Len(stack') = 1
               /\ stack'[1].script = NoScript /\ stack'[1].done = <<>>
               /\ stack'[1].todo = parts[Len(pre') + 1]
<1>1. /\ DOMAIN stack = {1} /\ Len(stack) = 1 /\ Current = stack[1]
      /\ stack[1].todo = <<>> /\ stack # <<>>
      BY DEF FinishPart, AtEnd, RewriteTypes, Current
<1>2. stack[1].script = NoScript /\ stack[1] \in CallType /\ stack[1].done \in Seq(Lines)
      BY <1>1, CallTypes DEF CallsNest
<1>3. /\ Len(pre) \in Nat /\ Len(parts) \in Nat /\ Len(pre) < Len(parts)
      /\ pre \in Seq(Seq(Lines)) /\ DOMAIN pre = 1..Len(pre)
      /\ DOMAIN parts = 1..Len(parts)
  <2>1. /\ pre \in Seq(Seq(Lines)) /\ parts \in Seq(Seq(SourceLines))
        BY DEF RewriteTypes
  <2>2. /\ Len(pre) \in Nat /\ Len(parts) \in Nat
        /\ DOMAIN pre = 1..Len(pre) /\ DOMAIN parts = 1..Len(parts)
        BY <2>1, LenProperties
  <2>3. Len(pre) <= Len(parts) /\ Len(pre) # Len(parts)
        BY <1>1 DEF CallsNest
  <2>4. Len(pre) < Len(parts)
        BY ONLY <2>2, <2>3, NextCount
  <2>5. QED
        BY <2>1, <2>2, <2>4
<1> DEFINE done == stack[1].done
<1>4. pre' = Append(pre, done)
      BY <1>1 DEF FinishPart
<1>5. done \in Seq(Lines)
      BY <1>2
<1> HIDE DEF done
<1>6. /\ pre' \in Seq(Seq(Lines)) /\ Len(pre') = Len(pre) + 1
      /\ \A p \in 1..Len(pre) : pre'[p] = pre[p]
      /\ pre'[Len(pre) + 1] = done
      BY <1>3, <1>4, <1>5, AppendProperties
<1>7. DOMAIN pre' = DOMAIN pre \cup {Len(pre) + 1}
  <2>1. DOMAIN pre' = 1..(Len(pre) + 1)
        BY <1>6, LenProperties
  <2>2. QED
        BY <1>3, <2>1
<1>8. Len(pre') <= Len(parts)
      BY ONLY <1>3, <1>6, NextCount
<1>9. \/ Len(pre') = Len(parts) /\ stack' = <<>>
      \/ /\ Len(pre') < Len(parts)
         /\ parts[Len(pre') + 1] \in Seq(SourceLines)
         /\ stack' \in Seq(CallType) /\ DOMAIN stack' = {1} /\ Len(stack') = 1
         /\ stack'[1].script = NoScript /\ stack'[1].done = <<>>
         /\ stack'[1].todo = parts[Len(pre') + 1]
  <2>1. CASE Len(pre') = Len(parts)
        BY <2>1 DEF FinishPart
  <2>2. CASE Len(pre') # Len(parts)
    <3> DEFINE call == Call(NoScript, parts[Len(pre') + 1])
    <3>1. Len(pre') < Len(parts) /\ Len(pre') + 1 \in 1..Len(parts)
      <4>1. Len(pre') \in Nat /\ Len(parts) \in Nat
            BY <1>3, <1>6
      <4>2. QED
            BY ONLY <4>1, <1>8, <2>2, NextCount
    <3>2. parts[Len(pre') + 1] \in Seq(SourceLines)
          BY <1>3, <3>1, ElementOfSeq DEF RewriteTypes
    <3>3. /\ call \in CallType
          /\ call.script = NoScript /\ call.done = <<>>
          /\ call.todo = parts[Len(pre') + 1]
          BY <3>2 DEF Call, CallType
    <3>4. stack' = <<call>>
          BY <2>2 DEF FinishPart
    <3> HIDE DEF call
    <3>5. /\ stack' \in Seq(CallType) /\ DOMAIN stack' = {1} /\ Len(stack') = 1
          /\ stack'[1] = call
          BY <3>3, <3>4
    <3>6. QED
          BY <3>1, <3>2, <3>3, <3>5, Zenon
  <2>3. QED
        BY <2>1, <2>2
<1>10. \A p \in DOMAIN pre : pre'[p] = pre[p]
      BY <1>3, <1>6
<1>11. stack[1].done \in Seq(Lines) /\ pre'[Len(pre) + 1] = stack[1].done
      BY <1>5, <1>6 DEF done
<1>12. QED
      BY <1>1, <1>2, <1>3, <1>6, <1>7, <1>8, <1>9, <1>10, <1>11, Zenon

LEMMA FinishPartInv ==
  ASSUME RewriteInv, FinishPart
  PROVE  RewriteInv'
<1>1. /\ RewriteTypes /\ CallsNest /\ VisitedOnce /\ NewIncludesAreVisited
      /\ CopiesFollow /\ EchoFollows
      BY DEF RewriteInv
<1>2. UNCHANGED <<text, parts, cache, mirror, echo, failed>>
      BY DEF FinishPart
<1>3. /\ DOMAIN stack = {1} /\ stack[1].todo = <<>>
      /\ stack[1].script = NoScript
      /\ stack[1].done \in Seq(Lines) /\ stack[1] \in CallType
      /\ pre' \in Seq(Seq(Lines)) /\ Len(pre') = Len(pre) + 1
      /\ Len(pre) \in Nat /\ Len(parts) \in Nat /\ Len(pre') <= Len(parts)
      /\ \A p \in DOMAIN pre : pre'[p] = pre[p]
      /\ DOMAIN pre' = DOMAIN pre \cup {Len(pre) + 1}
      /\ pre'[Len(pre) + 1] = stack[1].done
      BY <1>1, NextPart
<1>4. \/ Len(pre') = Len(parts) /\ stack' = <<>>
      \/ /\ Len(pre') < Len(parts)
         /\ parts[Len(pre') + 1] \in Seq(SourceLines)
         /\ stack' \in Seq(CallType) /\ DOMAIN stack' = {1} /\ Len(stack') = 1
         /\ stack'[1].script = NoScript /\ stack'[1].done = <<>>
         /\ stack'[1].todo = parts[Len(pre') + 1]
      BY <1>1, NextPart
<1>5. stack' \in Seq(CallType) /\ (DOMAIN stack' = {} \/ DOMAIN stack' = {1})
  <2>1. CASE stack' = <<>>
        BY <2>1, EmptySeq
  <2>2. QED
        BY <1>4, <2>1, Zenon
<1>6. ASSUME NEW i \in DOMAIN stack'
      PROVE  /\ i = 1 /\ stack'[i].script = NoScript /\ stack'[i].done = <<>>
             /\ Len(stack') = 1 /\ stack'[i].todo = parts[Len(pre') + 1]
             /\ parts[Len(pre') + 1] \in Seq(SourceLines)
      BY <1>4
<1>7. RewriteTypes'
      BY <1>1, <1>2, <1>3, <1>5 DEF RewriteTypes
<1>8. CallsNest'
  <2>1. stack' = <<>> <=> Len(pre') = Len(parts')
        BY <1>2, <1>3, <1>4
  <2>2. Len(pre') <= Len(parts')
        BY <1>2, <1>3
  <2>3. ASSUME NEW i \in DOMAIN stack'
        PROVE  (stack'[i].script = NoScript <=> i = Len(stack')) /\ ~(i > 1)
    <3>1. i = 1 /\ stack'[i].script = NoScript /\ Len(stack') = 1
          BY <1>6
    <3>2. QED
          BY ONLY <3>1
  <2>4. QED
        BY <2>1, <2>2, <2>3 DEF CallsNest
<1>9. Active = {} /\ Active' = {}
      BY <1>3, <1>6 DEF Active
<1>10. VisitedOnce'
      BY <1>1, <1>2, <1>9 DEF VisitedOnce, Copied
<1>11. NewIncludesAreVisited'
  <2>1. ASSUME NEW p \in DOMAIN pre'
        PROVE  Leads(pre'[p])
        BY <1>1, <1>3 DEF NewIncludesAreVisited
  <2>2. (\A i \in DOMAIN stack : Leads(stack[i].done))'
        BY <1>6 DEF Leads
  <2>3. QED
        BY <1>1, <1>2, <2>1, <2>2 DEF NewIncludesAreVisited, Leads, Copied
<1> DEFINE lines == parts[Len(pre) + 1]
<1>12. lines = Of(stack[1]) /\ lines \in Seq(SourceLines)
      BY <1>1, <1>3, OfCall
<1>13. failed = {} => stack[1].done = ImageOf(lines) /\ Len(stack[1].done) = Len(lines)
  <2>1. Halfway(stack[1], lines)
        BY <1>1, <1>3, <1>12 DEF CopiesFollow
  <2>2. QED
        BY <1>3, <1>12, <2>1, DoneIsImage
<1>14. CopiesFollow'
  <2>1. ASSUME NEW i \in DOMAIN stack'
        PROVE  Halfway(stack[i], Of(stack[i]))'
    <3> DEFINE rest == parts[Len(pre') + 1]
    <3>1. /\ stack'[i].done = <<>> /\ stack'[i].todo = rest /\ Of(stack[i])' = rest
          /\ rest \in Seq(SourceLines)
          BY <1>2, <1>6 DEF Of
    <3> HIDE DEF rest
    <3>2. Len(rest) \in Nat /\ DOMAIN rest = 1..Len(rest)
          BY <3>1, LenProperties
    <3>3. \A j \in DOMAIN rest : 0 + j = j
          BY <3>2
    <3>4. QED
          BY <3>1, <3>2, <3>3 DEF Halfway
  <2>2. ASSUME failed = {}, NEW p \in DOMAIN pre'
        PROVE  pre'[p] = ImageOf(parts[p])
        BY <1>1, <1>3, <1>13, <2>2 DEF CopiesFollow
  <2>3. QED
        BY <1>1, <1>2, <2>1, <2>2 DEF CopiesFollow, Copied, ImageOf
<1>15. EchoFollows'
  <2>1. ASSUME NEW i \in DOMAIN stack'
        PROVE  Echoed(Of(stack[i]), Len(stack[i].done))'
        BY <1>6 DEF Echoed
  <2>2. ASSUME failed = {}, NEW p \in DOMAIN pre'
        PROVE  Echoed(parts[p], Len(parts[p]))
    <3>1. CASE p \in DOMAIN pre
          BY <1>1, <2>2, <3>1 DEF EchoFollows
    <3>2. CASE p = Len(pre) + 1
      <4>1. Echoed(Of(stack[1]), Len(stack[1].done))
            BY <1>1, <1>3, <2>2 DEF EchoFollows
      <4>2. QED
            BY <1>12, <1>13, <2>2, <3>2, <4>1
    <3>3. QED
          BY <1>3, <3>1, <3>2
  <2>3. QED
        BY <1>1, <1>2, <2>1, <2>2 DEF EchoFollows, Echoed, Copied, IsOriginal
<1>16. QED
       BY <1>7, <1>8, <1>10, <1>11, <1>14, <1>15 DEF RewriteInv

LEMMA RewriteStepInv ==
  ASSUME RewriteInv, [Next]_rewriteVars
  PROVE  RewriteInv'
<1>1. CASE Keep
      BY <1>1, KeepInv
<1>2. CASE Reuse
      BY <1>2, ReuseInv
<1>3. CASE Enter
      BY <1>3, EnterInv
<1>4. CASE CannotRead
      BY <1>4, CannotReadInv
<1>5. CASE Write
      BY <1>5, WriteInv
<1>6. CASE CannotWrite
      BY <1>6, CannotWriteInv
<1>7. CASE FinishPart
      BY <1>7, FinishPartInv
<1>8. CASE UNCHANGED rewriteVars
  <2>1. UNCHANGED <<text, parts, stack, cache, mirror, pre, echo, failed>>
        BY <1>8 DEF rewriteVars
  <2>2. Copied' = Copied /\ Active' = Active
        BY <2>1 DEF Copied, Active
  <2>3. RewriteTypes' /\ CallsNest' /\ VisitedOnce' /\ NewIncludesAreVisited'
        BY <2>1, <2>2 DEF RewriteInv, RewriteTypes, CallsNest, VisitedOnce,
              NewIncludesAreVisited, Leads
  <2>4. CopiesFollow'
    <3>1. ASSUME NEW i \in DOMAIN stack'
          PROVE  Halfway(stack[i], Of(stack[i]))'
          BY <2>1, <3>1 DEF RewriteInv, CopiesFollow, Halfway, Of
    <3>2. QED
          BY <2>1, <2>2, <3>1 DEF RewriteInv, CopiesFollow
  <2>5. EchoFollows'
    <3>1. ASSUME NEW new \in DOMAIN echo'
          PROVE  IsOriginal(echo[new])' /\ Image(echo'[new]) = new
          BY <2>1, <3>1 DEF RewriteInv, EchoFollows, IsOriginal
    <3>2. ASSUME failed = {}, NEW i \in DOMAIN stack'
          PROVE  Echoed(Of(stack[i]), Len(stack[i].done))'
          BY <2>1, <3>2 DEF RewriteInv, EchoFollows, Echoed, Of
    <3>3. ASSUME failed = {}
          PROVE  /\ \A p \in DOMAIN pre' : Echoed(parts[p], Len(parts[p]))'
                 /\ \A s \in Copied' : Echoed(text[s], Len(text[s]))'
          BY <2>1, <2>2, <3>3 DEF RewriteInv, EchoFollows, Echoed
    <3>4. QED
          BY <2>1, <3>1, <3>2, <3>3 DEF EchoFollows
  <2>6. QED
        BY <2>3, <2>4, <2>5 DEF RewriteInv
<1>9. QED
      BY <1>1, <1>2, <1>3, <1>4, <1>5, <1>6, <1>7, <1>8 DEF Next

(***************************************************************************)
(* The theorems.                                                           *)
(***************************************************************************)
\* Whatever the scripts include and whatever fails, the invariant holds in
\* every state of the rewriting (rewrite_script_includes,
\* _ensure_rewritten_child_script).
THEOREM RewriteInvariance == Spec => []RewriteInv
<1>1. Init => RewriteInv
      BY RewriteInitInv
<1>2. RewriteInv /\ [Next]_rewriteVars => RewriteInv'
      BY RewriteStepInv
<1>3. QED
      BY <1>1, <1>2, PTL DEF Spec

LEMMA NothingIsActive ==
  ASSUME RewriteInv, Rewritten
  PROVE  /\ Active = {} /\ cache \subseteq Copied \cup failed
         /\ Len(pre) = Len(parts) /\ DOMAIN pre = DOMAIN parts
<1>1. Active = {}
      BY DEF Rewritten, Active
<1>2. Len(pre) = Len(parts)
      BY DEF RewriteInv, CallsNest, Rewritten
<1>3. pre \in Seq(Seq(Lines)) /\ parts \in Seq(Seq(SourceLines))
      BY DEF RewriteInv, RewriteTypes
<1>4. QED
      BY <1>1, <1>2, <1>3, LenProperties DEF RewriteInv, VisitedOnce

\* An include that has been turned to the mirror leads to a copy, or to a
\* script that could not be read or copied, for every shape of the includes.
THEOREM IncludesAreCopied == Spec => []IncludesLeadToCopies
<1>1. RewriteInv => IncludesLeadToCopies
  <2>1. SUFFICES ASSUME RewriteInv, Rewritten, NEW lines \in Run,
                        NEW i \in DOMAIN lines, lines[i].at = "mirror"
                 PROVE  lines[i].to \in Copied \cup failed
        BY DEF IncludesLeadToCopies
  <2>2. Leads(lines)
        BY <2>1 DEF RewriteInv, NewIncludesAreVisited, Run
  <2>3. QED
        BY <2>1, <2>2, NothingIsActive DEF Leads
<1>2. QED
      BY <1>1, RewriteInvariance, PTL

\* If nothing failed, what is run is line by line the image of the phase's
\* script and of every script it reaches.
THEOREM MirrorsAreScripts == Spec => []MirrorIsTheScript
<1>1. RewriteInv => MirrorIsTheScript
  <2>1. SUFFICES ASSUME RewriteInv, Rewritten, failed = {}
                 PROVE  /\ pre = [p \in DOMAIN parts |-> ImageOf(parts[p])]
                        /\ \A s \in cache : mirror[s] = ImageOf(text[s])
        BY DEF MirrorIsTheScript
  <2>2. /\ \A p \in DOMAIN pre : pre[p] = ImageOf(parts[p])
        /\ \A s \in Copied : mirror[s] = ImageOf(text[s])
        BY <2>1 DEF RewriteInv, CopiesFollow
  <2>3. pre \in [1..Len(pre) -> Seq(Lines)] /\ DOMAIN pre = 1..Len(pre)
        BY <2>1, LenProperties DEF RewriteInv, RewriteTypes
  <2>4. QED
        BY <2>1, <2>2, <2>3, NothingIsActive
<1>2. QED
      BY <1>1, RewriteInvariance, PTL

\* If nothing failed, what `is` echoes of a new command is given back as a
\* command of the scripts with the same image.
THEOREM EchoesAreRestored == Spec => []EchoIsRestored
<1>1. RewriteInv => EchoIsRestored
  <2>1. SUFFICES ASSUME RewriteInv, Rewritten, failed = {}, NEW old \in Originals
                 PROVE  /\ Restored(Image(old)) \in Originals
                        /\ Image(Restored(Image(old))) = Image(old)
        BY DEF EchoIsRestored
  <2>2. cache \subseteq Copied /\ DOMAIN pre = DOMAIN parts
        BY <2>1, NothingIsActive
  <2>3. /\ \A p \in DOMAIN parts : Echoed(parts[p], Len(parts[p]))
        /\ \A s \in Copied : Echoed(text[s], Len(text[s]))
        /\ \A new \in DOMAIN echo : IsOriginal(echo[new]) /\ Image(echo[new]) = new
        BY <2>1, <2>2 DEF RewriteInv, EchoFollows
  <2>4. /\ \A p \in DOMAIN parts : DOMAIN parts[p] = 1..Len(parts[p])
        /\ \A s \in Copied : DOMAIN text[s] = 1..Len(text[s])
    <3>1. RewriteTypes
          BY <2>1 DEF RewriteInv
    <3>2. \A p \in DOMAIN parts : parts[p] \in Seq(SourceLines)
          BY <3>1 DEF RewriteTypes
    <3>3. \A s \in Copied : text[s] \in Seq(SourceLines)
          BY <3>1 DEF RewriteTypes, Copied
    <3>4. QED
          BY <3>2, <3>3, LenProperties
  <2>5. PICK lines \in {parts[p] : p \in DOMAIN parts} \cup {text[s] : s \in Copied} :
             \E j \in DOMAIN lines : lines[j].cmd # "sql" /\ old = lines[j]
        BY <2>1 DEF Originals
  <2>6. Image(old) \in DOMAIN echo
        BY <2>3, <2>4, <2>5 DEF Echoed
  <2>7. /\ Restored(Image(old)) = echo[Image(old)]
        /\ IsOriginal(Restored(Image(old)))
        /\ Image(Restored(Image(old))) = Image(old)
        BY <2>3, <2>6 DEF Restored
  <2>8. ASSUME NEW line, IsOriginal(line)
        PROVE  line \in Originals
        BY <2>2, <2>8 DEF IsOriginal, Originals
  <2>9. QED
        BY <2>7, <2>8
<1>2. QED
      BY <1>1, RewriteInvariance, PTL
=============================================================================
