---------------------------- MODULE Consts_proofs ----------------------------
(***************************************************************************)
(* What genconsts writes for a header of any length, with any functions,   *)
(* offsets and numbers: every constant it can know in one pass is right.   *)
(***************************************************************************)
EXTENDS Consts, SequenceTheorems, TLAPS

Entries == [file : {"ufe", "fix"}, line : Nat, value : Int]

(* The lines of the gateway's header the first loop is through with. *)
Passed == IF phase \in {"fix", "done"} THEN Len(ufe) ELSE pos

Types ==
  /\ ufe \in Seq(Lines) /\ out \in Seq(Entries)
  /\ phase \in {"open", "ufe", "fix", "done", "terminated"}
  /\ pos \in Nat /\ Passed \in 0..Len(ufe)
  /\ phase = "open" => pos = 0
  /\ ufe_offsets \in [Funcs -> Nat]

(* What was written names a line that was passed. *)
Located == \A k \in DOMAIN out : out[k].file = "ufe" => out[k].line \in 0..Passed

(* The table holds the offset of a function that is clearly defined once. *)
OnlyDefinition(d, func) ==
  /\ d \in DOMAIN ufe /\ Defines(d, func) /\ Clear(ufe[d])
  /\ \A e \in DOMAIN ufe \ {d} : ~Defines(e, func)
TableRight ==
  \A func \in Funcs, d \in 1..Passed : OnlyDefinition(d, func) => ufe_offsets[func] = ufe[d].n

ConstsInv == Types /\ Located /\ TableRight /\ ConstantsRight

-----------------------------------------------------------------------------
(* o has the value v for line i, once. *)
Elsewhere(c, i) == c.file = "fix" \/ c.line # i
Written(o, i, v) ==
  \E k \in DOMAIN o : /\ o[k] = Constant("ufe", i, v)
                      /\ \A l \in DOMAIN o \ {k} : Elsewhere(o[l], i)

(* Writing what is about other lines leaves the constant of line i alone. *)
LEMMA WrittenKept ==
  ASSUME NEW o \in Seq(Entries), NEW s \in Seq(Entries), NEW i, NEW v,
         Written(o, i, v), \A l \in DOMAIN s : Elsewhere(s[l], i)
  PROVE  Written(o \o s, i, v)
<1>1. PICK k \in DOMAIN o : /\ o[k] = Constant("ufe", i, v)
                            /\ \A l \in DOMAIN o \ {k} : Elsewhere(o[l], i)
  BY DEF Written
<1>2. /\ Len(o) \in Nat /\ DOMAIN o = 1..Len(o)
      /\ Len(s) \in Nat /\ DOMAIN s = 1..Len(s)
      /\ DOMAIN (o \o s) = 1..Len(o)+Len(s)
      /\ \A l \in 1..Len(o)+Len(s) : (o \o s)[l] = IF l <= Len(o) THEN o[l] ELSE s[l - Len(o)]
  BY ConcatProperties, LenProperties
<1>3. (o \o s)[k] = Constant("ufe", i, v) /\ k \in DOMAIN (o \o s)
  BY <1>1, <1>2
<1>4. ASSUME NEW l \in DOMAIN (o \o s) \ {k} PROVE Elsewhere((o \o s)[l], i)
  <2>1. CASE l <= Len(o)
    BY <1>1, <1>2, <1>4, <2>1
  <2>2. CASE l > Len(o)
    <3>1. l - Len(o) \in DOMAIN s /\ (o \o s)[l] = s[l - Len(o)]
      BY <1>2, <1>4, <2>2
    <3> QED
      BY <3>1
  <2> QED
    BY <1>2, <1>4, <2>1, <2>2
<1> QED
  BY <1>3, <1>4 DEF Written

(* The first constant written for line i. *)
LEMMA WrittenNow ==
  ASSUME NEW o \in Seq(Entries), NEW i \in Nat, NEW v \in Int,
         \A l \in DOMAIN o : Elsewhere(o[l], i)
  PROVE  Written(Append(o, Constant("ufe", i, v)), i, v)
<1> DEFINE c == Constant("ufe", i, v)
<1>1. c \in Entries
  BY DEF Constant, Entries
<1> HIDE DEF c
<1>2. /\ Len(o) \in Nat /\ DOMAIN o = 1..Len(o)
      /\ DOMAIN Append(o, c) = 1..Len(o)+1
      /\ \A l \in 1..Len(o) : Append(o, c)[l] = o[l]
      /\ Append(o, c)[Len(o)+1] = c
  BY <1>1, AppendProperties, LenProperties
<1>3. \A l \in DOMAIN Append(o, c) \ {Len(o)+1} : Elsewhere(Append(o, c)[l], i)
  BY <1>2
<1>4. Written(Append(o, c), i, v)
  BY <1>2, <1>3 DEF Written, c
<1> QED
  BY <1>4 DEF c

LEMMA WrittenNext ==
  ASSUME NEW o \in Seq(Entries), NEW i \in Nat, NEW v \in Int,
         \A l \in DOMAIN o : Elsewhere(o[l], i)
  PROVE  Written(o \o <<Constant("ufe", i, v)>>, i, v)
<1> DEFINE c == Constant("ufe", i, v)
<1>1. c \in Entries
  BY DEF Constant, Entries
<1>2. Written(Append(o, c), i, v)
  BY WrittenNow
<1> HIDE DEF c
<1>3. Append(o, c) = o \o <<c>>
  BY <1>1, AppendIsConcat
<1>4. Written(o \o <<c>>, i, v)
  BY <1>2, <1>3
<1> QED
  BY <1>4 DEF c

(* The property, in these words. *)
LEMMA RightMeansWritten ==
  ConstantsRight <=>
    \A i \in 1..Passed : IsConstant(ufe[i]) /\ Resolved(i) => Written(out, i, Meaning(i))
BY DEF ConstantsRight, Written, Elsewhere, Passed

(* The expression captures all of a number of five digits. *)
LEMMA FiveCaptured ==
  ASSUME NEW n, FiveDigits(n)
  PROVE  n \in Nat /\ Matches(n) /\ Captured(n) = n
<1>1. n \in Nat /\ n >= LeastOfFive /\ n < 10 * LeastOfFive
  <2>1. LeastOfFive \in Nat /\ 10 * LeastOfFive - 1 \in Int
    BY SMT DEF LeastOfFive
  <2>2. n \in Int /\ LeastOfFive <= n /\ n <= 10 * LeastOfFive - 1
    BY <2>1 DEF FiveDigits
  <2> QED
    BY <2>1, <2>2
<1>2. ASSUME NEW m \in Nat, m < 10 * LeastOfFive PROVE m % (10 * LeastOfFive) = m
  BY <1>2, SMT DEF LeastOfFive
<1> QED
  BY <1>1, <1>2 DEF Matches, Captured

(* So the table takes the number of a clear definition. *)
LEMMA ClearCaptured ==
  ASSUME NEW line, Clear(line)
  PROVE  line.n \in Nat /\ Matches(LastNumber(line)) /\ Captured(LastNumber(line)) = line.n
BY FiveCaptured DEF Clear

LEMMA CapturedTyped == \A n \in Nat : Captured(n) \in Nat
BY SMT DEF Captured, LeastOfFive

(* What the header means by a resolved call, as the table has it. *)
LEMMA MeaningOfCall ==
  ASSUME Types, NEW i \in 1..Len(ufe), NEW d \in 1..i-1,
         ufe[i].kind = "call", OnlyDefinition(d, ufe[i].func)
  PROVE  Meaning(i) = ufe[i].n + ufe[d].n
<1> DEFINE chosen == CHOOSE e \in DOMAIN ufe : Defines(e, ufe[i].func)
<1>1. chosen \in DOMAIN ufe /\ Defines(chosen, ufe[i].func)
  <2>1. \E e \in DOMAIN ufe : Defines(e, ufe[i].func)
    BY DEF OnlyDefinition
  <2> QED
    BY <2>1, Zenon
<1>2. chosen = d
  <2> HIDE DEF chosen
  <2> QED
    BY <1>1 DEF OnlyDefinition
<1> QED
  BY <1>2 DEF Meaning

-----------------------------------------------------------------------------
LEMMA ConstsInit == Init => ConstsInv
<1> SUFFICES ASSUME Init PROVE ConstsInv
  OBVIOUS
<1> USE ConstsAssumption DEF Init, Passed
<1>1. ufe \in Seq(Lines)
  <2>1. \A s \in SeqOf(Lines, MaxLines) : s \in Seq(Lines)
    BY SeqDef DEF SeqOf
  <2> QED
    BY <2>1, EmptySeq
<1>2. out \in Seq(Entries) /\ DOMAIN out = {}
  BY EmptySeq, LenProperties
<1>3. Len(ufe) \in Nat
  BY <1>1, LenProperties
<1> QED
  BY <1>1, <1>2, <1>3 DEF ConstsInv, Types, Located, TableRight, ConstantsRight

(* What a line adds to the output is about this line. *)
About(s, i) == \A l \in DOMAIN s : s[l].file = "ufe" /\ s[l].line = i

LEMMA PieceTyped ==
  ASSUME NEW s, NEW i \in Nat, s = <<>> \/ \E v \in Int : s = <<Constant("ufe", i, v)>>
  PROVE  s \in Seq(Entries) /\ About(s, i)
<1>1. CASE s = <<>>
  BY <1>1, EmptySeq DEF About
<1>2. CASE s # <<>>
  <2>1. PICK v \in Int : s = <<Constant("ufe", i, v)>>
    BY <1>2
  <2> DEFINE c == Constant("ufe", i, v)
  <2>2. c \in Entries /\ c.file = "ufe" /\ c.line = i
    BY DEF Constant, Entries
  <2> HIDE DEF c
  <2>3. s = <<c>>
    BY <2>1 DEF c
  <2> QED
    BY <2>2, <2>3 DEF About
<1> QED
  BY <1>1, <1>2

LEMMA PiecesTyped ==
  ASSUME NEW i, NEW a \in Seq(Entries), NEW b \in Seq(Entries), About(a, i), About(b, i)
  PROVE  a \o b \in Seq(Entries) /\ About(a \o b, i)
<1>1. /\ Len(a) \in Nat /\ DOMAIN a = 1..Len(a)
      /\ Len(b) \in Nat /\ DOMAIN b = 1..Len(b)
      /\ a \o b \in Seq(Entries) /\ DOMAIN (a \o b) = 1..Len(a)+Len(b)
      /\ \A l \in 1..Len(a)+Len(b) : (a \o b)[l] = IF l <= Len(a) THEN a[l] ELSE b[l - Len(a)]
  BY ConcatProperties, LenProperties
<1>2. ASSUME NEW l \in DOMAIN (a \o b)
      PROVE  (a \o b)[l].file = "ufe" /\ (a \o b)[l].line = i
  <2>1. CASE l <= Len(a)
    BY <1>1, <1>2, <2>1 DEF About
  <2>2. CASE l > Len(a)
    <3>1. l - Len(a) \in DOMAIN b /\ (a \o b)[l] = b[l - Len(a)]
      BY <1>1, <1>2, <2>2
    <3> QED
      BY <3>1 DEF About
  <2> QED
    BY <1>1, <1>2, <2>1, <2>2
<1> QED
  BY <1>1, <1>2 DEF About

LEMMA ReadUfeStep ==
  ASSUME ConstsInv, ReadUfe
  PROVE  ConstsInv'
<1> USE ConstsAssumption DEF ConstsInv
<1> DEFINE here == pos + 1
           line == ufe[here]
           sum == OffsetOf(line) + Argument(line)
           number == Numbered(line, Constant("ufe", here, line.n))
           call == Called(line, Constant("ufe", here, Wrapped(sum)))
           s == number \o call
<1>1. /\ here = pos + 1 /\ here \in 1..Len(ufe) /\ pos \in Nat /\ Len(ufe) \in Nat /\ DOMAIN ufe = 1..Len(ufe)
      /\ Passed = pos /\ Passed' = here /\ pos' = here /\ ufe' = ufe
      /\ phase' \in {"ufe", "terminated"}
  BY LenProperties DEF ReadUfe, Types, Passed
<1>2. line \in Lines
  BY <1>1, ElementOfSeq DEF Types
<1>3. /\ line.kind \in {"offset", "hidden", "number", "call"}
      /\ line.kind = "offset" =>
           line.func \in Funcs /\ line.n \in Nat /\ line.note \in {None} \cup Remarks
      /\ line.kind = "number" => line.n \in Numbers /\ line.note \in {None} \cup Args
      /\ line.kind = "call" => line.func \in Funcs /\ line.n \in Args /\ line.note \in {None} \cup Args
  BY <1>2 DEF Lines
<1>4. ufe_offsets' = IF line.kind = "offset" /\ Matches(LastNumber(line))
                     THEN [ufe_offsets EXCEPT ![line.func] = Captured(LastNumber(line))]
                     ELSE ufe_offsets
  BY DEF ReadUfe
<1>5. out' = (out \o number) \o call
  BY DEF ReadUfe
<1> HIDE DEF here, line
<1>6. Calls(line) /\ ~Throws(line) => Argument(line) \in Nat /\ OffsetOf(line) \in Nat
  <2> SUFFICES ASSUME Calls(line), ~Throws(line)
               PROVE  Argument(line) \in Nat /\ OffsetOf(line) \in Nat
    OBVIOUS
  <2>1. Argument(line) \in Args
    BY <1>3 DEF Calls, Argument, Args
  <2>2. Argument(line) # Empty
    BY DEF Throws
  <2>3. OffsetOf(line) \in Nat
    BY <1>3 DEF Calls, OffsetOf, Types
  <2> QED
    BY <2>1, <2>2, <2>3 DEF Args
<1>7. Calls(line) /\ ~Throws(line) => Wrapped(sum) \in Int
  <2>1. \A n \in Nat : Wrapped(n) \in Int
    BY DEF Wrapped
  <2>2. \A m, n \in Nat : m + n \in Nat
    OBVIOUS
  <2> QED
    BY <1>6, <2>1, <2>2
<1>8. number = <<>> \/ \E v \in Int : number = <<Constant("ufe", here, v)>>
  BY <1>3 DEF Numbered
<1>9. call = <<>> \/ \E v \in Int : call = <<Constant("ufe", here, v)>>
  <2> HIDE DEF sum
  <2> QED
    BY <1>7 DEF Called
<1> HIDE DEF number, call
<1>10. /\ number \in Seq(Entries) /\ About(number, here)
      /\ call \in Seq(Entries) /\ About(call, here)
      /\ s \in Seq(Entries) /\ out' = out \o s
      /\ \A l \in DOMAIN s : s[l].file = "ufe" /\ s[l].line = here
  <2>1. number \in Seq(Entries) /\ About(number, here)
    BY <1>1, <1>8, PieceTyped
  <2>2. call \in Seq(Entries) /\ About(call, here)
    BY <1>1, <1>9, PieceTyped
  <2>3. s \in Seq(Entries) /\ About(s, here)
    BY <2>1, <2>2, PiecesTyped
  <2>4. out' = out \o s
    <3>1. out \in Seq(Entries)
      BY DEF Types
    <3>2. (out \o number) \o call = out \o (number \o call)
      BY <2>1, <2>2, <3>1, ConcatAssociative
    <3> QED
      BY <1>5, <3>2
  <2> QED
    BY <2>1, <2>2, <2>3, <2>4 DEF About
<1> HIDE DEF s
<1>11. out \in Seq(Entries) /\ out' \in Seq(Entries)
  BY <1>10, ConcatProperties DEF Types
<1>12. Types'
  <2>1. line.kind = "offset" => LastNumber(line) \in Nat
    BY <1>3 DEF LastNumber
  <2>2. ufe_offsets' \in [Funcs -> Nat]
    BY <1>3, <1>4, <2>1, CapturedTyped DEF Types
  <2> QED
    BY <1>1, <1>11, <2>2 DEF Types
<1>13. Located'
  <2> SUFFICES ASSUME NEW k \in DOMAIN out', out'[k].file = "ufe"
               PROVE  out'[k].line \in 0..here
    BY <1>1 DEF Located
  <2>1. /\ Len(out) \in Nat /\ DOMAIN out = 1..Len(out)
        /\ Len(s) \in Nat /\ DOMAIN s = 1..Len(s)
        /\ DOMAIN out' = 1..Len(out)+Len(s)
        /\ \A l \in 1..Len(out)+Len(s) : out'[l] = IF l <= Len(out) THEN out[l] ELSE s[l - Len(out)]
    BY <1>10, <1>11, ConcatProperties, LenProperties
  <2>2. CASE k <= Len(out)
    <3>1. k \in DOMAIN out /\ out'[k] = out[k]
      BY <2>1, <2>2
    <3> QED
      BY <1>1, <3>1 DEF Located
  <2>3. CASE k > Len(out)
    <3>1. k - Len(out) \in DOMAIN s /\ out'[k] = s[k - Len(out)]
      BY <2>1, <2>3
    <3> QED
      BY <1>1, <1>10, <3>1
  <2> QED
    BY <2>1, <2>2, <2>3
<1>14. TableRight'
  <2> SUFFICES ASSUME NEW func \in Funcs, NEW d \in 1..here, OnlyDefinition(d, func)
               PROVE  ufe_offsets'[func] = ufe[d].n
    BY <1>1 DEF TableRight, OnlyDefinition, Defines
  <2>1. CASE d = here
    <3>1. line.kind = "offset" /\ line.func = func /\ Clear(line)
      BY <2>1 DEF OnlyDefinition, Defines, Clear, line
    <3>2. Matches(LastNumber(line)) /\ Captured(LastNumber(line)) = line.n
      BY <3>1, ClearCaptured
    <3> QED
      BY <1>4, <2>1, <3>1, <3>2 DEF Types, line
  <2>2. CASE d # here
    <3>1. ~(line.kind = "offset" /\ line.func = func)
      BY <1>1, <2>2 DEF OnlyDefinition, Defines, line
    <3>2. ufe_offsets'[func] = ufe_offsets[func]
      BY <1>3, <1>4, <3>1 DEF Types
    <3> QED
      BY <1>1, <2>2, <3>2 DEF TableRight
  <2> QED
    BY <2>1, <2>2
<1>15. ConstantsRight'
  <2> SUFFICES ASSUME NEW i \in 1..here, IsConstant(ufe[i]), Resolved(i)
               PROVE  Written(out', i, Meaning(i))
    <3>1. \A i \in 1..here : /\ Meaning(i)' = Meaning(i) /\ IsConstant(ufe'[i]) = IsConstant(ufe[i])
                             /\ Resolved(i)' <=> Resolved(i)
      BY <1>1 DEF Meaning, Resolved, Defines, IsConstant
    <3>2. \A i \in 1..here : IsConstant(ufe'[i]) /\ Resolved(i)' => Written(out', i, Meaning(i)')
      BY <3>1
    <3> QED
      BY <1>1, <3>2 DEF ConstantsRight, Written, Elsewhere, Passed
  <2>1. CASE i # here
    <3>1. Written(out, i, Meaning(i))
      BY <1>1, <2>1, RightMeansWritten
    <3>2. \A l \in DOMAIN s : Elsewhere(s[l], i)
      BY <1>10, <2>1 DEF Elsewhere
    <3> QED
      BY <1>10, <1>11, <3>1, <3>2, WrittenKept
  <2>2. CASE i = here
    <3>1. \A l \in DOMAIN out : Elsewhere(out[l], i)
      <4>1. \A l \in DOMAIN out : out[l] \in Entries
        BY <1>11, ElementOfSeq, LenProperties
      <4> QED
        BY <1>1, <2>2, <4>1 DEF Located, Elsewhere, Entries
    <3>2. CASE ufe[i].kind = "number"
      <4>1. ~Calls(line) /\ line.kind = "number" /\ line.n \in Nat
        BY <1>3, <2>2, <3>2 DEF Resolved, Calls, line
      <4>2. number = <<Constant("ufe", i, line.n)>> /\ call = <<>>
        BY <2>2, <4>1 DEF number, call, Numbered, Called
      <4>3. Meaning(i) = line.n
        BY <2>2, <3>2, <4>1 DEF Meaning, line
      <4>4. s = <<Constant("ufe", i, Meaning(i))>> /\ Meaning(i) \in Int
        BY <1>10, <4>1, <4>2, <4>3, ConcatEmptySeq DEF s
      <4>5. out' = out \o <<Constant("ufe", i, Meaning(i))>> /\ i \in Nat
        BY <1>1, <1>10, <4>4
      <4> QED
        BY <1>11, <3>1, <4>4, <4>5, WrittenNext
    <3>3. CASE ufe[i].kind = "call"
      <4>1. PICK d \in 1..i-1 : OnlyDefinition(d, ufe[i].func) /\ Meaning(i) <= Largest
        BY <1>1, <2>2, <3>3 DEF Resolved, OnlyDefinition
      <4>2. /\ line.kind = "call" /\ line.note = None /\ line.n \in Nat /\ line.n # Empty
            /\ line.func \in Funcs /\ ufe[d].n \in Nat
        BY <1>3, <2>2, <3>3, <4>1, ClearCaptured DEF line, OnlyDefinition, Resolved, IsConstant, Args
      <4>3. ufe_offsets[line.func] = ufe[d].n
        BY <1>1, <2>2, <4>1, <4>2 DEF TableRight, line
      <4>4. Meaning(i) = line.n + ufe[d].n
        BY <1>1, <2>2, <3>3, <4>1, MeaningOfCall DEF line
      <4>5. Calls(line) /\ Argument(line) = line.n /\ OffsetOf(line) = ufe[d].n
        BY <4>2, <4>3 DEF Calls, Argument, OffsetOf
      <4>6. line.n <= Largest /\ ufe[d].n + line.n = Meaning(i) /\ Meaning(i) \in Int
        BY <4>1, <4>2, <4>4
      <4>7. ~Throws(line)
        BY <4>2, <4>5, <4>6 DEF Throws
      <4>8. Wrapped(sum) = Meaning(i)
        BY <4>1, <4>5, <4>6 DEF Wrapped
      <4>9. number = <<>> /\ call = <<Constant("ufe", i, Meaning(i))>>
        <5> HIDE DEF sum
        <5> QED
          BY <2>2, <4>2, <4>5, <4>7, <4>8 DEF number, call, Numbered, Called
      <4>10. s = <<Constant("ufe", i, Meaning(i))>>
        BY <1>10, <4>9, ConcatEmptySeq DEF s
      <4>11. out' = out \o <<Constant("ufe", i, Meaning(i))>> /\ i \in Nat
        BY <1>1, <1>10, <4>10
      <4> QED
        BY <1>11, <3>1, <4>6, <4>11, WrittenNext
    <3> QED
      BY <3>2, <3>3 DEF IsConstant
  <2> QED
    BY <2>1, <2>2
<1> QED
  BY <1>12, <1>13, <1>14, <1>15

(* Later constants are about no line of the gateway's header. *)
LEMMA LaterStep ==
  ASSUME ConstsInv, NEW c \in Entries, c.file = "fix" \/ c.line = 0,
         out' = Append(out, c), Passed' = Passed, Types',
         UNCHANGED <<ufe, ufe_offsets>>
  PROVE  ConstsInv'
<1> USE DEF ConstsInv
<1>1. /\ out \in Seq(Entries) /\ <<c>> \in Seq(Entries) /\ out' = out \o <<c>>
      /\ Passed \in Nat
  BY AppendIsConcat, LenProperties DEF Types
<1>2. Located'
  <2>1. /\ Len(out) \in Nat /\ DOMAIN out = 1..Len(out) /\ DOMAIN out' = 1..Len(out)+1
        /\ \A l \in 1..Len(out) : out'[l] = out[l]
        /\ out'[Len(out)+1] = c
    BY <1>1, AppendProperties, LenProperties
  <2> QED
    BY <1>1, <2>1 DEF Located
<1>3. TableRight'
  BY DEF TableRight, OnlyDefinition, Defines
<1>4. ConstantsRight'
  <2>1. ASSUME NEW i \in 1..Passed, IsConstant(ufe[i]), Resolved(i)
        PROVE  Written(out', i, Meaning(i))
    <3>1. Written(out, i, Meaning(i))
      BY <2>1, RightMeansWritten
    <3>2. \A l \in DOMAIN <<c>> : Elsewhere(<<c>>[l], i)
      BY <1>1 DEF Elsewhere
    <3> QED
      BY <1>1, <3>1, <3>2, WrittenKept
  <2>2. \A i \in 1..Passed : /\ Meaning(i)' = Meaning(i) /\ IsConstant(ufe'[i]) = IsConstant(ufe[i])
                             /\ Resolved(i)' <=> Resolved(i)
    BY DEF Meaning, Resolved, Defines, IsConstant
  <2>3. \A i \in 1..Passed' : IsConstant(ufe'[i]) /\ Resolved(i)' => Written(out', i, Meaning(i)')
    BY <2>1, <2>2
  <2> QED
    BY <2>3 DEF ConstantsRight, Written, Elsewhere, Passed
<1> QED
  BY <1>2, <1>3, <1>4

(* And so for a step that writes nothing. *)
LEMMA SilentStep ==
  ASSUME ConstsInv, Passed' = Passed, Types', UNCHANGED <<ufe, ufe_offsets, out>>
  PROVE  ConstsInv'
<1> USE DEF ConstsInv
<1>1. Located' /\ TableRight'
  BY DEF Located, TableRight, OnlyDefinition, Defines
<1>2. \A i \in 1..Passed : /\ Meaning(i)' = Meaning(i) /\ IsConstant(ufe'[i]) = IsConstant(ufe[i])
                           /\ Resolved(i)' <=> Resolved(i)
  BY DEF Meaning, Resolved, Defines, IsConstant
<1>3. \A i \in 1..Passed' : IsConstant(ufe'[i]) /\ Resolved(i)' => Written(out', i, Meaning(i)')
  BY <1>2, RightMeansWritten
<1>4. ConstantsRight'
  BY <1>3 DEF ConstantsRight, Written, Elsewhere, Passed
<1> QED
  BY <1>1, <1>4

LEMMA ConstsStep == ConstsInv /\ [Next]_vars => ConstsInv'
<1> SUFFICES ASSUME ConstsInv, Types, [Next]_vars PROVE ConstsInv'
  BY DEF ConstsInv
<1>1. out \in Seq(Entries) /\ Len(ufe) \in Nat
  BY LenProperties DEF Types
<1>2. CASE Open
  <2>1. /\ Passed = 0 /\ pos' = 0 /\ phase' = "ufe" /\ UNCHANGED <<ufe_offsets, out>>
        /\ ufe' = ufe \/ ufe' = <<>>
    BY <1>2 DEF Open, Types, Passed
  <2>2. ufe' \in Seq(Lines) /\ Len(ufe') \in Nat
    BY <1>1, <2>1, EmptySeq DEF Types
  <2>3. Passed' = 0
    BY <2>1 DEF Passed
  <2> QED
    BY <1>1, <2>1, <2>2, <2>3 DEF ConstsInv, Types, Located, TableRight, ConstantsRight, Passed
<1>3. CASE EndUfe
  <2> DEFINE c == Constant("ufe", 0, ufe_offsets[Common])
  <2>1. c \in Entries /\ c.line = 0
    BY ConstsAssumption DEF Constant, Entries, Types
  <2>2. /\ out' = Append(out, c) /\ UNCHANGED <<ufe, ufe_offsets>>
        /\ phase' = "fix" /\ pos' = 0 /\ phase = "ufe" /\ pos = Len(ufe)
    BY <1>3 DEF EndUfe
  <2> HIDE DEF c
  <2>3. Passed' = Passed /\ Passed' \in 0..Len(ufe)
    BY <1>1, <2>2 DEF Passed
  <2>4. Append(out, c) \in Seq(Entries)
    BY <1>1, <2>1, AppendProperties
  <2>5. Types'
    BY <2>2, <2>3, <2>4 DEF Types
  <2> QED
    BY <2>1, <2>2, <2>3, <2>5, LaterStep
<1>4. CASE ReadFix
  <2> DEFINE c == Constant("fix", pos + 1, 0)
  <2>1. c \in Entries /\ c.file = "fix"
    BY DEF Constant, Entries, Types
  <2>2. /\ out' = Append(out, c) /\ UNCHANGED <<ufe, ufe_offsets, phase>>
        /\ phase = "fix" /\ pos' = pos + 1
    BY <1>4 DEF ReadFix
  <2> HIDE DEF c
  <2>3. Passed' = Passed
    BY <2>2 DEF Passed
  <2>4. Append(out, c) \in Seq(Entries)
    BY <1>1, <2>1, AppendProperties
  <2>5. Types'
    BY <2>2, <2>3, <2>4 DEF Types
  <2> QED
    BY <2>1, <2>2, <2>3, <2>5, LaterStep
<1>5. CASE EndFix
  <2>1. Passed' = Passed /\ UNCHANGED <<ufe, pos, ufe_offsets, out>> /\ phase' = "done"
    BY <1>5 DEF EndFix, Passed
  <2>2. Types'
    BY <2>1 DEF Types
  <2> QED
    BY <2>1, <2>2, SilentStep
<1>6. CASE UNCHANGED vars
  <2>1. Passed' = Passed /\ UNCHANGED <<ufe, pos, phase, ufe_offsets, out>>
    BY <1>6 DEF vars, Passed
  <2>2. Types'
    BY <2>1 DEF Types
  <2> QED
    BY <2>1, <2>2, SilentStep
<1> QED
  BY <1>2, <1>3, <1>4, <1>5, <1>6, ReadUfeStep DEF Next, Step, Over

(* Whatever the header, what this generator can know is right: a constant  *)
(* on a line where no comment reads like a call, that gives a number, or   *)
(* calls a status function defined once, before it, by five digits that    *)
(* are the last on their line, with a sum that is an int, is written once, *)
(* with the value the header gives it, when its line has been read.        *)
THEOREM ConstantsKnown == Spec => []ConstantsRight
<1>1. ConstsInv => ConstantsRight
  BY DEF ConstsInv
<1> QED
  BY <1>1, ConstsInit, ConstsStep, PTL DEF Spec
=============================================================================
