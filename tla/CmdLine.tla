------------------------------- MODULE CmdLine -------------------------------
(***************************************************************************)
(* cmdline_split of src/lib/unix.c: the command that module_cmdexec is given *)
(* becomes the arguments of a module.  A first pass counts the tokens and     *)
(* sizes the array of arguments, a second one walks the line with a pointer   *)
(* and copies; escapes make the two disagree about what a word is.            *)
(*                                                                          *)
(* The step of this machine is an iteration of the second pass's loops; ptr   *)
(* is a position in the line, Len(cmdexec) + 1 is its NUL.                    *)
(***************************************************************************)
EXTENDS Integers, Sequences, FiniteSets

CONSTANTS
    Chars, Spaces, Backslash,
    MaxLine  \* bound: characters of a line

ASSUME CharsAssumption ==
    Spaces \subseteq Chars /\ Backslash \in Chars /\ Backslash \notin Spaces
ASSUME MaxLineAssumption == MaxLine \in Nat

VARIABLES
    cmdexec,   \* the line
    at,        \* "outer" and "inner" loop, "done"
    ptr,
    cur_arg,   \* the argument being copied; ptr_idx is its length
    cmd_args,  \* the arguments copied; arg_idx is its length
    begins     \* history: where the arguments began

splitVars == <<cmdexec, at, ptr, cur_arg, cmd_args, begins>>

Lines == UNION {[1..n -> Chars] : n \in 0..MaxLine}

Nul == Len(cmdexec) + 1
IsSpace(p) == p # Nul /\ cmdexec[p] \in Spaces

MutStarts == {i \in 2..Len(cmdexec) : ~IsSpace(i) /\ IsSpace(i - 1)}

\* The first pass: the tokens it counts begin here.
Starts == {i \in 1..Len(cmdexec) : ~IsSpace(i) /\ (i = 1 \/ IsSpace(i - 1))}

max_tokens == Cardinality(Starts)

\* while (isspace(*ptr)) ptr++, from p: it ends at q.
SkipsTo(p, q) ==
    /\ \A i \in p..q - 1 : IsSpace(i)
    /\ ~IsSpace(q)

SplitInit ==
    /\ cmdexec \in Lines
    /\ at = "outer"
    /\ ptr = 1
    /\ cur_arg = <<>>
    /\ cmd_args = <<>>
    /\ begins = {}

\* The outer loop finds the next word, or the end of the line.
NextWord ==
    /\ at = "outer"
    /\ \E q \in ptr..Nul :
         /\ SkipsTo(ptr, q)
         /\ ptr' = q
         /\ IF q = Nul THEN at' = "done" /\ UNCHANGED begins
                       ELSE at' = "inner" /\ begins' = begins \cup {q}
    /\ UNCHANGED <<cmdexec, cur_arg, cmd_args>>

\* A character that stands for itself.
Copy ==
    /\ at = "inner"
    /\ ptr # Nul /\ ~IsSpace(ptr) /\ cmdexec[ptr] # Backslash
    /\ cur_arg' = Append(cur_arg, cmdexec[ptr])
    /\ ptr' = ptr + 1
    /\ UNCHANGED <<cmdexec, at, cmd_args, begins>>

MutSwallows(c) == TRUE

\* Line 156: the spaces after an escaped character are skipped, except after
\* an escaped backslash.
Swallows(c) == c # Backslash

\* An escape: the character after it is copied, whatever it is.
Escape ==
    /\ at = "inner"
    /\ ptr < Len(cmdexec)
    /\ cmdexec[ptr] = Backslash
    /\ cur_arg' = Append(cur_arg, cmdexec[ptr + 1])
    /\ IF Swallows(cmdexec[ptr + 1])
       THEN \E q \in ptr + 2..Nul : SkipsTo(ptr + 2, q) /\ ptr' = q
       ELSE ptr' = ptr + 2
    /\ UNCHANGED <<cmdexec, at, cmd_args, begins>>

MutBehind == ptr + 1

\* Where a word leaves the pointer: at the space or the NUL that ended it; a
\* backslash at the end of the line has been passed.
Behind == IF ptr = Nul \/ IsSpace(ptr) THEN ptr ELSE Nul

\* The end of a word: a space, the end of the line, or a backslash there.
EndWord ==
    /\ at = "inner"
    /\ \/ ptr = Nul \/ IsSpace(ptr)
       \/ ptr = Len(cmdexec) /\ cmdexec[ptr] = Backslash
    /\ ptr' = Behind
    /\ cmd_args' = Append(cmd_args, cur_arg)
    /\ cur_arg' = <<>>
    /\ at' = "outer"
    /\ UNCHANGED <<cmdexec, begins>>

SplitNext == NextWord \/ Copy \/ Escape \/ EndWord

SplitSpec == SplitInit /\ [][SplitNext]_splitVars

-----------------------------------------------------------------------------
(* Properties.                                                              *)

LineTypeOK ==
    /\ cmdexec \in Seq(Chars)
    /\ at \in {"outer", "inner", "done"}
    /\ ptr \in 1..Nul
    /\ cur_arg \in Seq(Chars)
    /\ cmd_args \in Seq(Seq(Chars))
    /\ begins \subseteq 1..Len(cmdexec)

\* The array of max_tokens + 1 entries holds every argument and the NULL after
\* them, although the pass that sized it knows nothing of escapes.
ArgsFit == Len(cmd_args) + (IF at = "inner" THEN 1 ELSE 0) <= max_tokens

-----------------------------------------------------------------------------
(* What the arguments are, by positions in the line instead of a pointer.    *)

\* Escaped: after an odd number of backslashes.
Escaped(i) ==
    \E n \in 1..i - 1 :
        /\ n % 2 = 1
        /\ \A j \in i - n..i - 1 : cmdexec[j] = Backslash
        /\ i - n = 1 \/ cmdexec[i - n - 1] # Backslash

\* Words are split on whitespace, and "\ " combines two words: a space that is not
\* escaped parts them (the note at lines 106-108).
Parts(i) == IsSpace(i) /\ ~Escaped(i)

InWord(i) == Escaped(i) \/ ~IsSpace(i)
Copied(i) == Escaped(i) \/ (~IsSpace(i) /\ cmdexec[i] # Backslash)

WordStarts ==
    {i \in 1..Len(cmdexec) :
        /\ InWord(i)
        /\ \A j \in 1..i - 1 : InWord(j) => \E k \in j + 1..i - 1 : Parts(k)}

\* No space comes right after an escaped character other than a backslash.  The
\* loop at lines 156-159 passes over such spaces, and so they part no words: of
\* "\a b" the code makes the one word "ab".
NoneSwallowed ==
    \A i \in 1..Len(cmdexec) :
        Escaped(i) /\ cmdexec[i] # Backslash => ~IsSpace(i + 1)

\* Of every line but those where spaces come right after an escaped character,
\* the arguments are the words that the note above cmdline_split promises: each
\* with the characters it is made of, in the order of the line, and none lost to
\* an escape.
ArgsAreWords ==
    at = "done" /\ NoneSwallowed =>
        /\ Len(cmd_args) = Cardinality(WordStarts)
        /\ \A s \in WordStarts :
             LET nth    == Cardinality({i \in WordStarts : i <= s})
                 rest   == {i \in WordStarts : i > s}
                 end    == IF rest = {} THEN Len(cmdexec)
                           ELSE CHOOSE i \in rest : \A j \in rest : i <= j
                 copied == {i \in s..end : Copied(i) /\ (i < end \/ rest = {})}
             IN  /\ Len(cmd_args[nth]) = Cardinality(copied)
                 /\ \A i \in copied :
                      cmd_args[nth][Cardinality({j \in copied : j <= i})] = cmdexec[i]
=============================================================================
