------------------------------- MODULE Consts -------------------------------
(***************************************************************************)
(* genconsts: it reads the gateway's header line by line, remembers the    *)
(* offset each status function adds, and writes one constant for each line *)
(* that gives a number or calls such a function; the FIX header follows    *)
(* (genconsts.cpp, generate_consts).                                       *)
(*                                                                         *)
(* A constant is known by the number of its line.  A line is what the      *)
(* regular expressions tell apart, the comment that may follow on it       *)
(* included: they are greedy and read it too.                              *)
(***************************************************************************)
EXTENDS Integers, Sequences, SequencesExt

CONSTANTS Funcs,    \* status functions
          Common,   \* ufe_common_fix, one of them
          Offsets,  \* what a function may add to its argument
          Numbers,  \* numbers and arguments
          Remarks,  \* numbers before a semicolon in a comment
          Empty,    \* what stands in parentheses: nothing
          None,     \* no comment
          Largest,  \* the largest int
          MaxLines  \* bound: lines of a header

ASSUME ConstsAssumption ==
  /\ Common \in Funcs /\ MaxLines \in Nat
  /\ Offsets \cup Numbers \cup Remarks \subseteq Nat /\ Largest \in Nat
  /\ None \notin Numbers \cup Remarks \cup {Empty} /\ Empty \notin Numbers

(* The definition of a function, perhaps with a number in a comment, or    *)
(* "hidden" behind one with a parenthesis before its number; a constant    *)
(* that is a number or calls a function, perhaps with digits or nothing in *)
(* parentheses in a comment.                                               *)
Args == Numbers \cup {Empty}
Lines ==
  [kind : {"offset"}, func : Funcs, n : Offsets, note : {None} \cup Remarks]
  \cup [kind : {"hidden"}, func : Funcs, n : Offsets]
  \cup [kind : {"number"}, n : Numbers, note : {None} \cup Args]
  \cup [kind : {"call"}, func : Funcs, n : Args, note : {None} \cup Args]

VARIABLES ufe,         \* the gateway's header
          fix,         \* constants in the FIX header
          readable,    \* the headers that can be opened
          phase,       \* "open", the loop that runs ("ufe", "fix"), "done", "terminated"
          pos,         \* lines that loop has read
          ufe_offsets, \* the offset of each function, 0 if it has none
          out          \* the constants written

vars == <<ufe, fix, readable, phase, pos, ufe_offsets, out>>

Init ==
  /\ readable \in SUBSET {"ufe", "fix"}
  /\ ufe \in IF "ufe" \in readable THEN SeqOf(Lines, MaxLines) ELSE {<<>>}
  /\ fix \in IF "fix" \in readable THEN 0..1 ELSE {0}
  /\ phase = "open" /\ pos = 0
  /\ ufe_offsets = [f \in Funcs |-> 0]
  /\ out = <<>>

(* The output is opened, and emptied or made, before the headers; by       *)
(* default it is the gateway's header itself.                              *)
Open ==
  /\ phase = "open" /\ phase' = "ufe"
  /\ \/ UNCHANGED <<ufe, readable>>
     \/ ufe' = <<>> /\ readable' = readable \cup {"ufe"}
  /\ UNCHANGED <<fix, pos, ufe_offsets, out>>

(* Five digits before the last semicolon that has them: of more the last   *)
(* five, of fewer none.                                                    *)
LeastOfFive == 10 * 10 * 10 * 10
Matches(n) == n >= LeastOfFive
LastFour(n) == n % LeastOfFive
Captured(n) == n % (10 * LeastOfFive)
LastNumber(line) == IF line.note \in {m \in Remarks : Matches(m)} THEN line.note ELSE line.n

(* The last digits in parentheses are the argument, and all that stands    *)
(* before them the function: with a comment, no name that is remembered.   *)
Calls(line) == line.kind = "call" \/ (line.kind = "number" /\ line.note # None)
Argument(line) == IF line.note = None THEN line.n ELSE line.note
OffsetOf(line) == IF line.note = None THEN ufe_offsets[line.func] ELSE 0

(* stoi() throws if there are no digits or too many; an int wraps.         *)
Throws(line) == Calls(line) /\ (Argument(line) = Empty \/ Argument(line) > Largest)
Wrapped(n) == IF n <= Largest THEN n ELSE n - 2 * (Largest + 1)

Constant(file, line, value) == [file |-> file, line |-> line, value |-> value]

(* What a line adds to the output: its number, and its call.               *)
Numbered(line, value) == IF line.kind = "number" THEN <<value>> ELSE <<>>
Called(line, value) == IF Calls(line) /\ ~Throws(line) THEN <<value>> ELSE <<>>

(* One round of the first loop: the offset is remembered, the number is    *)
(* copied, the call is evaluated with what is remembered so far; main()    *)
(* does not catch what stoi() throws.                                      *)
ReadUfe ==
  /\ phase = "ufe" /\ pos < Len(ufe)
  /\ pos' = pos + 1
  /\ LET line == ufe[pos + 1]
         Value(n) == Constant("ufe", pos + 1, n)
     IN /\ ufe_offsets' = IF line.kind = "offset" /\ Matches(LastNumber(line))
                          THEN [ufe_offsets EXCEPT ![line.func] = Captured(LastNumber(line))]
                          ELSE ufe_offsets
        /\ out' = out \o Numbered(line, Value(line.n))
                      \o Called(line, Value(Wrapped(OffsetOf(line) + Argument(line))))
        /\ phase' = IF Throws(line) THEN "terminated" ELSE phase
  /\ UNCHANGED <<ufe, fix, readable>>

(* while (!eof()): a stream that did not open never gets there.  After the *)
(* first loop the offset of ufe_common_fix becomes UFE_COMMON_FIX.         *)
NeverEof(file) == FALSE
Eof(file) == file \in readable
EndUfe ==
  /\ phase = "ufe" /\ pos = Len(ufe) /\ Eof("ufe")
  /\ phase' = "fix" /\ pos' = 0
  /\ out' = Append(out, Constant("ufe", 0, ufe_offsets[Common]))
  /\ UNCHANGED <<ufe, fix, readable, ufe_offsets>>

(* The second loop: a line of the FIX header that names a Common constant  *)
(* gives one, of the type the line speaks of.                              *)
ReadFix ==
  /\ phase = "fix" /\ pos < fix
  /\ pos' = pos + 1
  /\ out' = Append(out, Constant("fix", pos + 1, 0))
  /\ UNCHANGED <<ufe, fix, readable, phase, ufe_offsets>>
EndFix ==
  /\ phase = "fix" /\ pos = fix /\ Eof("fix")
  /\ phase' = "done"
  /\ UNCHANGED <<ufe, fix, readable, pos, ufe_offsets, out>>

(* Done, or reading for ever a stream that did not open. *)
Over == (phase \in {"done", "terminated"} \/ phase \notin readable) /\ UNCHANGED vars

Step == Open \/ ReadUfe \/ EndUfe \/ ReadFix \/ EndFix
Next == Step \/ Over
Spec == Init /\ [][Next]_vars /\ WF_vars(Step)

-----------------------------------------------------------------------------
IsConstant(line) == line.kind = "number" \/ (line.kind = "call" /\ line.n # Empty)

(* The value the header gives a constant: its number, plus the offset of   *)
(* its function wherever that is defined.                                  *)
Defines(i, func) == ufe[i].kind \in {"offset", "hidden"} /\ ufe[i].func = func
Meaning(i) ==
  ufe[i].n + IF ufe[i].kind = "number" THEN 0
             ELSE ufe[CHOOSE d \in DOMAIN ufe : Defines(d, ufe[i].func)].n

(* Can the one pass know it?  Only if no comment on its line reads like a  *)
(* call and, where it calls one, its function is defined once, before it,  *)
(* by five digits that are the last on their line, and the sum is an int.  *)
FiveDigits(n) == n \in LeastOfFive..10 * LeastOfFive - 1
Clear(line) == line.kind = "offset" /\ FiveDigits(line.n) /\ LastNumber(line) = line.n
Resolved(i) ==
  /\ ufe[i].note = None
  /\ ufe[i].kind = "call" =>
       \E d \in 1..i-1 : /\ Defines(d, ufe[i].func) /\ Clear(ufe[d])
                         /\ \A e \in DOMAIN ufe \ {d} : ~Defines(e, ufe[i].func)
                         /\ Meaning(i) <= Largest

(* Every constant of the gateway's header that is resolved has been        *)
(* written once, with the value the header gives it, when its line has     *)
(* been passed.                                                            *)
ConstantsRight ==
  \A i \in 1..(IF phase \in {"fix", "done"} THEN Len(ufe) ELSE pos) :
    IsConstant(ufe[i]) /\ Resolved(i) =>
      \E k \in DOMAIN out :
        /\ out[k] = Constant("ufe", i, Meaning(i))
        /\ \A l \in DOMAIN out \ {k} : out[l].file = "fix" \/ out[l].line # i

(* The generator comes to an end if its headers can be opened, and it is   *)
(* the proper end unless what it takes for an argument is no int.          *)
GeneratorEnds ==
  readable = {"ufe", "fix"} ~> (phase = "done" \/ (phase = "terminated" /\ Throws(ufe[pos])))
=============================================================================
