--------------------------- MODULE IncludeRewrite ---------------------------
(***************************************************************************)
(* Included scripts.  Before a phase is run, rewrite_script_includes       *)
(* copies every script that its SQL includes into a mirror directory and   *)
(* turns the includes (@, @@, START) into ones of the copies; when the     *)
(* output is there, restore_rewritten_include_output puts the original     *)
(* commands back where `is` echoed the new ones.                           *)
(*                                                                         *)
(* The recursion of rewrite_script_includes and                            *)
(* _ensure_rewritten_child_script is the explicit stack below.  A line is  *)
(* a statement or an include; includes that are not resolved (absolute,    *)
(* "?", no such file, START WITH) are kept like statements and are left    *)
(* out.                                                                    *)
(***************************************************************************)
EXTENDS Integers, Sequences

CONSTANTS
    Scripts,    \* the scripts that can be included, by resolved path
    Visible,    \* what the visible part of the phase's script may be
    Hidden,     \* what its hidden part may be; <<>> is none
    Texts,      \* what an included script may be
    NoScript,
    NoMirror

ASSUME ScriptAssumption == NoScript \notin Scripts

\* The ways to include one.
Commands == {"@", "@@", "START"}

Statement == [cmd |-> "sql", to |-> NoScript, at |-> "source"]

LinesAt(places) == {Statement} \cup [cmd : Commands, to : Scripts, at : places]

\* What a script may hold, and what a copy of one may hold.
SourceLines == LinesAt({"source"})

Lines == LinesAt({"source", "mirror"})

ASSUME TextAssumption ==
    /\ Visible \subseteq Seq(SourceLines)
    /\ Hidden \subseteq Seq(SourceLines)
    /\ Texts \subseteq Seq(SourceLines)
    /\ NoMirror \notin Seq(Lines)

VARIABLES
    text,       \* the scripts on disk
    parts,      \* the parts of the phase's script: visible, and hidden if any
    stack,      \* the calls under way; the first is the current one
    cache,      \* the scripts that have been visited
    mirror,     \* the copies on disk
    pre,        \* the parts as they are run
    echo,       \* for each new command, the one to show in its place
    failed      \* history: the scripts that could not be read or copied

rewriteVars == <<text, parts, stack, cache, mirror, pre, echo, failed>>

Call(script, lines) == [script |-> script, todo |-> lines, done |-> <<>>]

Current == Head(stack)

Line == Head(Current.todo)

\* @@ is relative to the including script; in the mirror a path is absolute.
NewCommand(command) == IF command = "@@" THEN "@" ELSE command

\* The include of the copy.
Image(line) == [line EXCEPT !.cmd = NewCommand(@), !.at = "mirror"]

Passed(call, line) ==
    [call EXCEPT !.todo = Tail(@), !.done = Append(@, line)]

\* Mutant: only the phase's own script is given the map.
SubstituteAtTop(line) ==
    echo' = IF Len(stack') > 1 THEN echo
            ELSE [new \in DOMAIN echo \cup {Image(line)} |->
                    IF new = Image(line) THEN line ELSE echo[new]]

\* The new command stands for the old one, in the script and in the echo.
Substitute(line) ==
    echo' = [new \in DOMAIN echo \cup {Image(line)} |->
                IF new = Image(line) THEN line ELSE echo[new]]

HasLine == stack # <<>> /\ Current.todo # <<>>

\* Mutant: a script counts as visited once its copy is there.
VisitedIfWritten(script) == script \in cache /\ mirror[script] # NoMirror

\* The test on the active scripts that follows in the code is never reached:
\* an active script is in the cache.
Visited(script) == script \in cache

Keep ==
    /\ HasLine
    /\ Line.cmd = "sql"
    /\ stack' = <<Passed(Current, Line)>> \o Tail(stack)
    /\ UNCHANGED <<text, parts, cache, mirror, pre, echo, failed>>

Reuse ==
    /\ HasLine
    /\ Line.cmd # "sql"
    /\ Visited(Line.to)
    /\ stack' = <<Passed(Current, Image(Line))>> \o Tail(stack)
    /\ Substitute(Line)
    /\ UNCHANGED <<text, parts, cache, mirror, pre, failed>>

\* A script is cached as it is entered, before there is a copy of it.
Enter ==
    /\ HasLine
    /\ Line.cmd # "sql"
    /\ Line.to \notin cache
    /\ cache' = cache \cup {Line.to}
    /\ stack' = <<Call(Line.to, text[Line.to])>> \o stack
    /\ UNCHANGED <<text, parts, mirror, pre, echo, failed>>

\* OSError: the include is left as it was.
CannotRead ==
    /\ HasLine
    /\ Line.cmd # "sql"
    /\ Line.to \notin cache
    /\ cache' = cache \cup {Line.to}
    /\ failed' = failed \cup {Line.to}
    /\ stack' = <<Passed(Current, Line)>> \o Tail(stack)
    /\ UNCHANGED <<text, parts, mirror, pre, echo>>

AtEnd == stack # <<>> /\ Current.todo = <<>>

\* The call that included the current script, past the include.
Caller(line) == Passed(stack[2], line)

Include == Head(stack[2].todo)

\* Mutant: the copy is made of what was read.
WriteUnrewritten ==
    /\ AtEnd
    /\ Len(stack) > 1
    /\ mirror' = [mirror EXCEPT ![Current.script] = text[Current.script]]
    /\ stack' = <<Caller(Image(Include))>> \o SubSeq(stack, 3, Len(stack))
    /\ Substitute(Include)
    /\ UNCHANGED <<text, parts, cache, pre, failed>>

\* Mutant: only what the phase's script includes itself is written.
WriteShallow ==
    /\ AtEnd
    /\ Len(stack) > 1
    /\ mirror' = IF Len(stack) > 2 THEN mirror
                 ELSE [mirror EXCEPT ![Current.script] = Current.done]
    /\ stack' = <<Caller(Image(Include))>> \o SubSeq(stack, 3, Len(stack))
    /\ Substitute(Include)
    /\ UNCHANGED <<text, parts, cache, pre, failed>>

Write ==
    /\ AtEnd
    /\ Len(stack) > 1
    /\ mirror' = [mirror EXCEPT ![Current.script] = Current.done]
    /\ stack' = <<Caller(Image(Include))>> \o SubSeq(stack, 3, Len(stack))
    /\ Substitute(Include)
    /\ UNCHANGED <<text, parts, cache, pre, failed>>

\* OSError: as when the script cannot be read.
CannotWrite ==
    /\ AtEnd
    /\ Len(stack) > 1
    /\ failed' = failed \cup {Current.script}
    /\ stack' = <<Caller(Include)>> \o SubSeq(stack, 3, Len(stack))
    /\ UNCHANGED <<text, parts, cache, mirror, pre, echo>>

\* The visible part comes first, the hidden one is rewritten with the same
\* cache and the same map of commands.
FinishPart ==
    /\ AtEnd
    /\ Len(stack) = 1
    /\ pre' = Append(pre, Current.done)
    /\ stack' = IF Len(pre') = Len(parts) THEN <<>>
                ELSE <<Call(NoScript, parts[Len(pre') + 1])>>
    /\ UNCHANGED <<text, parts, cache, mirror, echo, failed>>

Init ==
    /\ text \in [Scripts -> Texts]
    /\ \E visible \in Visible, hidden \in Hidden :
        /\ parts = IF hidden = <<>> THEN <<visible>> ELSE <<visible, hidden>>
        /\ stack = <<Call(NoScript, visible)>>
    /\ cache = {}
    /\ mirror = [s \in Scripts |-> NoMirror]
    /\ pre = <<>>
    /\ echo = [new \in {} |-> NoScript]
    /\ failed = {}

Next ==
    \/ Keep \/ Reuse \/ Enter \/ CannotRead
    \/ Write \/ CannotWrite \/ FinishPart

Spec == Init /\ [][Next]_rewriteVars

\* It is a function call that runs on.
FairSpec == Spec /\ WF_rewriteVars(Next)

Rewritten == stack = <<>>

\* restore_rewritten_include_output, of a command that `is` echoes.
Restored(line) == IF line \in DOMAIN echo THEN echo[line] ELSE line

(***************************************************************************)
(* Properties.                                                             *)
(***************************************************************************)
Copied == {s \in Scripts : mirror[s] # NoMirror}

\* What is run: the parts and the copies.
Run == {pre[i] : i \in DOMAIN pre} \cup {mirror[s] : s \in Copied}

\* Whatever the includes' shape, cycles too, a new include leads to a copy,
\* unless the script failed: then a second include of it leads nowhere
\* (_ensure_rewritten_child_script).
IncludesLeadToCopies ==
    Rewritten =>
        \A lines \in Run : \A i \in DOMAIN lines :
            lines[i].at = "mirror" => lines[i].to \in Copied \cup failed

LineImage(line) == IF line.cmd = "sql" THEN line ELSE Image(line)

ImageOf(lines) == [i \in DOMAIN lines |-> LineImage(lines[i])]

\* Where nothing failed, every part and every script it reaches is run line by
\* line from its copy, and no include leads back to the original directory
\* (rewrite_script_includes).
MirrorIsTheScript ==
    Rewritten /\ failed = {} =>
        /\ pre = [p \in DOMAIN parts |-> ImageOf(parts[p])]
        /\ \A s \in cache : mirror[s] = ImageOf(text[s])

\* The commands that were rewritten.
Originals ==
    UNION {{lines[i] : i \in {j \in DOMAIN lines : lines[j].cmd # "sql"}} :
            lines \in {parts[p] : p \in DOMAIN parts} \cup {text[s] : s \in Copied}}

\* Where nothing failed, every command `is` may echo is given back as a
\* command of the scripts that has this image; that is the right one unless
\* @ and @@, or two spellings, lead to one script
\* (restore_rewritten_include_output).
EchoIsRestored ==
    Rewritten /\ failed = {} =>
        \A old \in Originals :
            /\ Restored(Image(old)) \in Originals
            /\ Image(Restored(Image(old))) = Image(old)

\* The rewriting ends, on cyclic includes too.
RewritingEnds == <>Rewritten
=============================================================================
