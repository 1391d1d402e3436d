--------------------------- MODULE GeneratorProofs ---------------------------
(***************************************************************************)
(* For every dataset, number of requests and start in the dataset: what    *)
(* the generator has sent is, in order and without a gap, the usable       *)
(* records of the file, and it stops short of the last of them only when   *)
(* enough is sent, a line does not parse or a record raises.  And for its  *)
(* prefix table, of any capacity and window: the levels and the detector's *)
(* counters are in order, and who shrinks a prefix.  The two share no      *)
(* state: they are two specifications, and each theorem is about one.      *)
(***************************************************************************)
EXTENDS Generator, LazyPrefixTable, FiniteSetTheorems, SequenceTheorems,
        WellFoundedInduction, TLAPS

Gathered == {group[i] : i \in 1 .. Len(group)}

(* The group, while it grows and while it is sent: records in the order of *)
(* the file, behind all that is sent, with one timestamp.                  *)
GroupIsNext ==
  /\ \A i \in 1 .. Len(group) : /\ DatasetStart < group[i] /\ group[i] <= line
                                /\ file[group[i]].time >= 0
                                /\ file[group[i]].time = file[group[1]].time
  /\ \A i, j \in 1 .. Len(group) : i < j => group[i] < group[j]
  /\ \A i \in 1 .. Number, j \in 1 .. Len(group) : sent[i] < group[j]
  /\ \A i \in 1 .. Number : sent[i] <= line

(* The record that ended it comes behind both.                             *)
NextIsLast ==
  step = "send" =>
    /\ next = line /\ DatasetStart < next /\ file[next].time >= 0
    /\ \A i \in 1 .. Len(group) : group[i] < next
    /\ \A i \in 1 .. Number : sent[i] < next

(* Of the lines read, none that is wanted is forgotten.                    *)
NoneForgotten ==
  \A n \in Wanted : n <= line => n \in Sent \/ n \in Gathered \/ n = next

(* No record that is sent already, or is not to be, has raised.            *)
NoneRaised ==
  \A m \in Line : DatasetStart < m /\ m <= line =>
    m \in Gathered \/ m = next \/ Passed(file[m])

(* What was read parses, and reading goes on to the end of the file.       *)
ReadSoFar ==
  /\ \A m \in Line : DatasetStart < m /\ m <= line => file[m].parses
  /\ step = "read" => line <= DatasetStart \/ line <= Len(file)
  /\ step = "last" => line > Len(file)

(* Once the number asked for is reached, the rest of the group is of the   *)
(* same time.                                                              *)
RestIsOfOneGroup ==
  step \in {"send", "last"} /\ Number >= RequestNum =>
    \A i \in 1 .. Len(group) : file[group[i]].time = file[sent[RequestNum]].time

EndsForAReason ==
  step = "ended" => \/ Number >= RequestNum \/ Wanted \subseteq Sent
                    \/ \E m \in Line : ~file[m].parses

(* The inductive invariant.                                                *)
Inv ==
  /\ TypeOK /\ SentInOrder /\ ExcessIsOfOneGroup /\ EndsForAReason
  /\ step # "ended" => /\ GroupIsNext /\ NextIsLast /\ NoneForgotten
                       /\ NoneRaised /\ ReadSoFar /\ RestIsOfOneGroup

(* Lines, and the records on them.                                         *)
LEMMA FileRange ==
  ASSUME TypeOK
  PROVE  /\ Len(file) \in Nat /\ Line \subseteq Nat /\ line \in Nat
         /\ DatasetStart \in Nat /\ RequestNum \in Nat \ {0} /\ MaxModelLen \in Nat
         /\ Len(group) \in Nat /\ Number \in Nat
         /\ \A i \in 1 .. Len(group) : group[i] \in Line
         /\ \A i \in 1 .. Number : sent[i] \in Line
         /\ \A n \in Line : file[n] \in Record
<1> USE GeneratorAssumption DEF TypeOK
<1>1. file \in Seq(Record)
  OBVIOUS
<1>2. Len(file) \in Nat
  BY <1>1
<1>3. line \in Nat
  BY <1>2
<1>4. /\ Len(group) \in Nat /\ Len(sent) \in Nat
      /\ \A i \in 1 .. Len(group) : group[i] \in Line
      /\ \A i \in 1 .. Len(sent) : sent[i] \in Line
  BY ElementOfSeq
<1>5. \A n \in Line : file[n] \in Record
  BY <1>1, ElementOfSeq DEF Line
<1> QED
  BY <1>2, <1>3, <1>4, <1>5 DEF Line, Number

(* What raises is what the dataset does not let the loop get past, and     *)
(* what is usable is what it asks for.                                     *)
LEMMA UsableIsWellformed ==
  ASSUME TypeOK, NEW n \in Line
  PROVE  /\ Usable(file[n]) <=> Wellformed(file[n])
         /\ file[n].time >= 0 /\ file[n].parses => (Raises(file[n]) <=> ~Passed(file[n]))
<1>1. MaxModelLen \in Nat /\ file[n] \in Record
  BY FileRange
<1>2. Usable(file[n]) <=> Wellformed(file[n])
  BY <1>1 DEF Usable, Wellformed, Record
<1> QED
  BY <1>2 DEF Raises, Passed

(* A record of a group becomes a request exactly if its line is wanted.    *)
LEMMA UsableIsWanted ==
  ASSUME TypeOK, NEW n \in Line, DatasetStart < n, file[n].time >= 0,
         \A m \in Line : DatasetStart < m /\ m <= n => Passed(file[m])
  PROVE  Usable(file[n]) <=> n \in Wanted
<1>1. Len(file) \in Nat /\ DatasetStart \in Nat /\ n \in Nat
  BY FileRange
<1>2. \A m \in DatasetStart + 1 .. n : Passed(file[m])
  BY <1>1 DEF Line
<1> QED
  BY <1>2, UsableIsWellformed DEF Wanted

(* What is wanted is behind the start and valid.                           *)
LEMMA WantedIs ==
  \A n \in Wanted : n \in Line /\ n > DatasetStart /\ file[n].time >= 0
  BY DEF Wanted

(* Behind a line the loop does not get past nothing is wanted.             *)
LEMMA NothingWantedBehind ==
  ASSUME TypeOK, NEW m \in Line, DatasetStart < m, ~Passed(file[m]), NEW n \in Wanted
  PROVE  n < m
<1>1. m \in Nat /\ DatasetStart \in Nat /\ Line \subseteq Nat
  BY FileRange
<1>2. n \in Nat /\ m \notin DatasetStart + 1 .. n
  BY <1>1, WantedIs DEF Wanted
<1> QED
  BY <1>1, <1>2

(* Nothing becomes a request.                                              *)
LEMMA NothingSent ==
  ASSUME TypeOK, UNCHANGED <<file, sent>>
  PROVE  /\ Wanted' = Wanted /\ Sent' = Sent /\ Line' = Line /\ Number' = Number
         /\ SentInOrder => SentInOrder'
         /\ ExcessIsOfOneGroup => ExcessIsOfOneGroup'
<1>1. Wanted' = Wanted /\ Sent' = Sent /\ Line' = Line /\ Number' = Number
  BY DEF Wanted, Sent, Line, Number
<1> QED
  BY <1>1 DEF SentInOrder, ExcessIsOfOneGroup

(* Nothing is read.                                                        *)
LEMMA InvInit == Init => Inv
<1> SUFFICES ASSUME Init PROVE Inv
  OBVIOUS
<1> USE DEF Init
<1>1. /\ file \in Seq(Record)
      /\ DatasetStart \in Nat /\ RequestNum \in Nat \ {0}
  BY GeneratorAssumption
<1>2. Len(file) \in Nat /\ Len(group) = 0 /\ Number = 0
  BY <1>1 DEF Number
<1>3. 1 .. 0 = {} /\ RequestNum .. 0 = {}
  BY <1>1
<1>4. TypeOK
  <2>1. 0 \in 0 .. Len(file) + DatasetStart + 1
    BY <1>1, <1>2
  <2>2. group \in Seq(Line) /\ sent \in Seq(Line)
    OBVIOUS
  <2> QED
    BY <2>1, <2>2 DEF TypeOK, NoLine
<1>5. SentInOrder /\ ExcessIsOfOneGroup
  BY <1>2, <1>3 DEF SentInOrder, Sent, ExcessIsOfOneGroup
<1>6. GroupIsNext /\ NextIsLast /\ RestIsOfOneGroup
  BY <1>2, <1>3 DEF GroupIsNext, NextIsLast, RestIsOfOneGroup
<1>7. NoneForgotten /\ NoneRaised /\ ReadSoFar
  <2>1. \A n \in Line : n > 0
    BY <1>2 DEF Line
  <2>2. \A n \in Wanted : ~(n <= line)
    BY <2>1, WantedIs, <1>2 DEF Line
  <2> QED
    BY <1>1, <1>2, <2>2 DEF NoneForgotten, NoneRaised, ReadSoFar, Line
<1>8. EndsForAReason
  BY DEF EndsForAReason
<1> QED
  BY <1>4, <1>5, <1>6, <1>7, <1>8 DEF Inv

(* A line is read.                                                         *)
LEMMA ReadStep ==
  ASSUME Inv, Read
  PROVE  Inv'
<1>1. /\ TypeOK /\ SentInOrder /\ ExcessIsOfOneGroup /\ step = "read"
      /\ GroupIsNext /\ NextIsLast /\ NoneForgotten /\ NoneRaised /\ ReadSoFar
      /\ RestIsOfOneGroup
      /\ next = NoLine
  BY DEF Inv, Read, TypeOK
<1>2. /\ Len(file) \in Nat /\ Line \subseteq Nat /\ line \in Nat
      /\ DatasetStart \in Nat /\ RequestNum \in Nat \ {0} /\ Number \in Nat /\ Len(group) \in Nat
      /\ \A i \in 1 .. Len(group) : group[i] \in Line
      /\ \A i \in 1 .. Number : sent[i] \in Line
      /\ \A n \in Line : file[n].time \in Int
  BY <1>1, FileRange DEF Record
<1>a. /\ \A i \in 1 .. Len(group) : group[i] \in Int /\ group[i] < line + 1 /\ group[i] <= line + 1
      /\ \A i \in 1 .. Number : sent[i] \in Int /\ sent[i] < line + 1 /\ sent[i] <= line + 1
  <2>1. /\ \A i \in 1 .. Len(group) : group[i] \in Nat /\ group[i] <= line
        /\ \A i \in 1 .. Number : sent[i] \in Nat /\ sent[i] <= line
    BY <1>1, <1>2 DEF GroupIsNext
  <2>2. \A k \in Nat : k <= line => k \in Int /\ k < line + 1 /\ k <= line + 1
    BY <1>2
  <2> QED
    BY <2>1, <2>2
<1>3. UNCHANGED <<file, sent>>
  BY DEF Read, ReadRecord, Ended
<1>4. /\ Wanted' = Wanted /\ Sent' = Sent /\ Line' = Line /\ Number' = Number
      /\ SentInOrder' /\ ExcessIsOfOneGroup'
  BY <1>1, <1>3, NothingSent
<1>5. CASE Number >= RequestNum
  <2>1. Ended /\ line' = line
    BY <1>5 DEF Read
  <2>2. TypeOK'
    BY <1>1, <1>3, <1>4, <2>1 DEF TypeOK, Ended
  <2> QED
    BY <1>4, <1>5, <2>1, <2>2 DEF Inv, EndsForAReason, Ended
<1>6. CASE ~(Number >= RequestNum)
  <2>1. line' = line + 1
    BY <1>6 DEF Read
  <2>2. line' \in 0 .. Len(file) + DatasetStart + 1
    BY <1>1, <1>2, <2>1 DEF ReadSoFar
  <2>3. CASE line' <= DatasetStart
    <3>1. UNCHANGED <<file, group, next, step, sent>>
      BY <1>2, <1>6, <2>1, <2>3 DEF Read
    <3>2. TypeOK'
      BY <1>1, <1>4, <2>2, <3>1 DEF TypeOK
    <3>3. GroupIsNext'
      BY <1>1, <1>4, <1>a, <2>1, <3>1 DEF GroupIsNext
    <3>a. NextIsLast' /\ RestIsOfOneGroup'
      BY <1>1, <3>1 DEF NextIsLast, RestIsOfOneGroup
    <3>4. NoneForgotten'
      <4>1. ASSUME NEW n \in Wanted, n <= line' PROVE FALSE
        <5>1. n \in Nat /\ n > DatasetStart
          BY <1>2, WantedIs
        <5> QED
          BY <1>2, <2>1, <2>3, <4>1, <5>1
      <4> QED
        BY <1>4, <4>1 DEF NoneForgotten
    <3>b. NoneRaised'
      BY <1>2, <1>4, <2>1, <2>3 DEF NoneRaised
    <3>5. ReadSoFar'
      BY <1>1, <1>2, <1>4, <2>1, <2>3, <3>1 DEF ReadSoFar
    <3> QED
      BY <1>1, <1>4, <3>1, <3>2, <3>3, <3>a, <3>b, <3>4, <3>5 DEF Inv, EndsForAReason
  <2>4. CASE line' > DatasetStart /\ line' > Len(file)
    <3>1. step' = "last" /\ UNCHANGED <<file, group, next, sent>>
      BY <1>2, <1>6, <2>1, <2>2, <2>4 DEF Read
    <3>2. TypeOK'
      BY <1>1, <1>4, <2>2, <3>1 DEF TypeOK
    <3>3. GroupIsNext'
      BY <1>1, <1>4, <1>a, <2>1, <3>1 DEF GroupIsNext
    <3>a. NextIsLast' /\ RestIsOfOneGroup'
      BY <1>4, <1>6, <3>1 DEF NextIsLast, RestIsOfOneGroup
    <3>4. \A n \in Line : n <= line
      BY <1>2, <2>1, <2>4 DEF Line
    <3>5. NoneForgotten'
      BY <1>1, <1>4, <3>1, <3>4, WantedIs DEF NoneForgotten, Gathered
    <3>b. NoneRaised'
      BY <1>1, <1>4, <3>1, <3>4 DEF NoneRaised, Gathered
    <3>6. ReadSoFar'
      BY <1>1, <1>4, <2>4, <3>1, <3>4 DEF ReadSoFar
    <3> QED
      BY <1>4, <3>1, <3>2, <3>3, <3>a, <3>b, <3>5, <3>6 DEF Inv, EndsForAReason
  <2>5. CASE line' \in DatasetStart + 1 .. Len(file) /\ ~file[line'].parses
    <3>1. Ended
      BY <1>2, <1>6, <2>1, <2>2, <2>5 DEF Read, ReadRecord
    <3>2. TypeOK'
      BY <1>1, <1>3, <1>4, <2>2, <3>1 DEF TypeOK, Ended
    <3>3. line' \in Line'
      BY <1>2, <1>4, <2>5 DEF Line
    <3> QED
      BY <1>3, <1>4, <2>5, <3>1, <3>2, <3>3 DEF Inv, EndsForAReason, Ended
  <2>6. CASE line' \in DatasetStart + 1 .. Len(file) /\ file[line'].parses
    <3> DEFINE n == line'
    <3>1. /\ n \in Line /\ DatasetStart < n /\ n = line + 1 /\ n \in Nat
          /\ IF file[n].time >= 0 THEN Gather(n) ELSE UNCHANGED <<group, next, step>>
      BY <1>2, <1>6, <2>1, <2>2, <2>6 DEF Read, ReadRecord, Line, Valid
    <3>2. \A m \in Line : m <= n <=> m <= line \/ m = n
      BY <1>2, <3>1
    <3>3. \A m \in Line : DatasetStart < m /\ m <= n => file[m].parses
      BY <1>1, <2>6, <3>2 DEF ReadSoFar
    <3>4. CASE ~(file[n].time >= 0)
      <4>1. UNCHANGED <<file, group, next, step, sent>> /\ n \notin Wanted
        BY <1>3, <3>1, <3>4 DEF Wanted
      <4>2. TypeOK'
        BY <1>1, <1>4, <2>2, <4>1 DEF TypeOK
      <4>3. GroupIsNext'
        BY <1>1, <1>4, <1>a, <2>1, <4>1 DEF GroupIsNext
      <4>a. NextIsLast' /\ RestIsOfOneGroup'
        BY <1>1, <4>1 DEF NextIsLast, RestIsOfOneGroup
      <4>4. NoneForgotten'
        BY <1>1, <1>4, <3>2, <4>1, WantedIs DEF NoneForgotten, Gathered
      <4>b. NoneRaised'
        BY <1>1, <1>4, <2>6, <3>1, <3>2, <3>4, <4>1 DEF NoneRaised, Gathered, Passed
      <4>5. ReadSoFar'
        BY <1>1, <1>2, <1>4, <3>1, <3>3, <4>1 DEF ReadSoFar, Line
      <4> QED
        BY <1>1, <1>4, <4>1, <4>2, <4>3, <4>a, <4>b, <4>4, <4>5 DEF Inv, EndsForAReason
    <3>5. CASE file[n].time >= 0 /\ (group = << >> \/ file[n].time = file[group[1]].time)
      <4>1. group' = Append(group, n) /\ UNCHANGED <<file, next, step, sent>>
        BY <1>3, <3>1, <3>5 DEF Gather
      <4>2. /\ group' \in Seq(Line) /\ Len(group') = Len(group) + 1
            /\ \A i \in 1 .. Len(group) : group'[i] = group[i]
            /\ group'[Len(group) + 1] = n
        BY <1>1, <3>1, <4>1, AppendProperties DEF TypeOK
      <4>3. \A i \in 1 .. Len(group') : i \in 1 .. Len(group) \/ i = Len(group) + 1
        BY <1>2, <4>2
      <4>4. TypeOK'
        BY <1>1, <1>4, <2>2, <4>1, <4>2 DEF TypeOK
      <4>5. \A i \in 1 .. Len(group) : group[i] < n /\ group[i] <= n
        BY <1>a, <3>1
      <4>6. \A i \in 1 .. Number : sent[i] < n /\ sent[i] <= n
        BY <1>a, <3>1
      <4>7. ASSUME NEW i \in 1 .. Len(group')
            PROVE  /\ DatasetStart < group'[i] /\ group'[i] <= n
                   /\ file[group'[i]].time >= 0 /\ file[group'[i]].time = file[group'[1]].time
        <5>1. CASE i \in 1 .. Len(group)
          <6>1. 1 \in 1 .. Len(group) /\ group'[1] = group[1] /\ group'[i] = group[i]
            BY <1>2, <4>2, <5>1
          <6> QED
            BY <1>1, <4>5, <5>1, <6>1 DEF GroupIsNext
        <5>2. CASE i = Len(group) + 1
          <6>1. group'[i] = n /\ n <= n
            BY <3>1, <4>2, <5>2
          <6>2. CASE group = << >>
            BY <3>1, <3>5, <4>2, <5>2, <6>1, <6>2
          <6>3. CASE group # << >>
            <7>1. 1 \in 1 .. Len(group)
              BY <1>1, <1>2, <6>3, EmptySeq DEF TypeOK
            <7>2. group'[1] = group[1] /\ file[n].time = file[group[1]].time
              BY <3>5, <4>2, <6>3, <7>1
            <7> QED
              BY <3>1, <3>5, <6>1, <7>2
          <6> QED
            BY <6>2, <6>3
        <5> QED
          BY <4>3, <5>1, <5>2
      <4>8. GroupIsNext'
        <5>1. \A i, j \in 1 .. Len(group') : i < j => group'[i] < group'[j]
          BY <1>1, <1>2, <4>2, <4>3, <4>5 DEF GroupIsNext
        <5>2. \A i \in 1 .. Number, j \in 1 .. Len(group') : sent[i] < group'[j]
          BY <1>1, <4>2, <4>3, <4>6 DEF GroupIsNext
        <5> QED
          BY <1>4, <4>1, <4>6, <4>7, <5>1, <5>2 DEF GroupIsNext
      <4>9. NextIsLast' /\ RestIsOfOneGroup'
        BY <1>1, <4>1 DEF NextIsLast, RestIsOfOneGroup
      <4>10. NoneForgotten'
        <5>1. Gathered' = Gathered \union {n}
          BY <4>2, <4>3 DEF Gathered
        <5> QED
          BY <1>1, <1>4, <3>2, <4>1, <5>1, WantedIs DEF NoneForgotten
      <4>b. NoneRaised'
        <5>1. Gathered' = Gathered \union {n}
          BY <4>2, <4>3 DEF Gathered
        <5> QED
          BY <1>1, <1>4, <3>2, <4>1, <5>1 DEF NoneRaised
      <4>11. ReadSoFar'
        BY <1>1, <1>2, <1>4, <3>1, <3>3, <4>1 DEF ReadSoFar, Line
      <4> QED
        BY <1>1, <1>4, <4>1, <4>4, <4>8, <4>9, <4>10, <4>b, <4>11 DEF Inv, EndsForAReason
    <3>6. CASE file[n].time >= 0 /\ ~(group = << >> \/ file[n].time = file[group[1]].time)
      <4>1. step' = "send" /\ next' = n /\ UNCHANGED <<file, group, sent>>
        BY <1>3, <3>1, <3>6 DEF Gather
      <4>2. TypeOK'
        BY <1>1, <1>2, <1>4, <2>2, <3>1, <4>1 DEF TypeOK, NoLine, Line
      <4>3. GroupIsNext'
        BY <1>1, <1>4, <1>a, <2>1, <4>1 DEF GroupIsNext
      <4>4. NextIsLast'
        BY <1>a, <1>4, <3>1, <3>6, <4>1 DEF NextIsLast
      <4>5. RestIsOfOneGroup'
        BY <1>4, <1>6 DEF RestIsOfOneGroup
      <4>6. NoneForgotten'
        <5>1. Gathered' = Gathered
          BY <4>1 DEF Gathered
        <5>2. ASSUME NEW m \in Wanted, m <= n
              PROVE  m \in Sent \/ m \in Gathered \/ m = n
          <6>1. m \in Line /\ m \in Nat /\ m # NoLine
            BY <1>2, WantedIs DEF Line, NoLine
          <6> QED
            BY <1>1, <3>2, <5>2, <6>1 DEF NoneForgotten
        <5> QED
          BY <1>4, <4>1, <5>1, <5>2 DEF NoneForgotten
      <4>b. NoneRaised'
        <5>1. Gathered' = Gathered /\ \A m \in Line : m # next
          BY <1>1, <1>2, <4>1 DEF Gathered, Line, NoLine
        <5> QED
          BY <1>1, <1>4, <3>2, <4>1, <5>1 DEF NoneRaised
      <4>7. ReadSoFar'
        BY <1>1, <1>2, <1>4, <3>1, <3>3, <4>1 DEF ReadSoFar, Line
      <4> QED
        BY <1>4, <4>1, <4>2, <4>3, <4>4, <4>5, <4>6, <4>b, <4>7 DEF Inv, EndsForAReason
    <3> QED
      BY <3>4, <3>5, <3>6
  <2> QED
    BY <1>2, <2>1, <2>2, <2>3, <2>4, <2>5, <2>6
<1> QED
  BY <1>5, <1>6

(* What is before the head of the group has been got past, and what is     *)
(* wanted there is sent.                                                   *)
LEMMA BeforeHeadIsPassed ==
  ASSUME TypeOK, GroupIsNext, NextIsLast, NoneForgotten, NoneRaised,
         step \in {"send", "last"}, group # << >>
  PROVE  /\ \A m \in Line : DatasetStart < m /\ m < group[1] => Passed(file[m])
         /\ \A m \in Wanted : m < group[1] => m \in Sent
<1>1. /\ line \in Nat /\ Line \subseteq Nat /\ Len(group) \in Nat
      /\ \A i \in 1 .. Len(group) : group[i] \in Line
  BY FileRange
<1>2. 1 \in 1 .. Len(group) /\ group[1] \in Nat /\ group[1] <= line
  <2>1. 1 \in 1 .. Len(group)
    BY <1>1, EmptySeq DEF TypeOK
  <2> QED
    BY <1>1, <2>1 DEF GroupIsNext
<1>3. ASSUME NEW m \in Line, m < group[1] PROVE m <= line /\ m \notin Gathered /\ m # next
  <2>1. m \in Nat /\ m <= line
    BY <1>1, <1>2, <1>3
  <2>2. m \notin Gathered
    <3>1. ASSUME NEW i \in 1 .. Len(group), m = group[i] PROVE FALSE
      <4>1. i = 1 \/ 1 < i
        OBVIOUS
      <4>2. CASE 1 < i
        BY <1>2, <1>3, <2>1, <3>1, <4>2 DEF GroupIsNext
      <4> QED
        BY <1>2, <1>3, <3>1, <4>1, <4>2
    <3> QED
      BY <3>1 DEF Gathered
  <2>3. m # next
    <3>1. CASE step = "send"
      BY <1>1, <1>2, <1>3, <2>1, <3>1 DEF NextIsLast
    <3>2. CASE step # "send"
      BY <1>1, <3>2 DEF TypeOK, NoLine, Line
    <3> QED
      BY <3>1, <3>2
  <2> QED
    BY <2>1, <2>2, <2>3
<1>4. \A m \in Line : DatasetStart < m /\ m < group[1] => Passed(file[m])
  BY <1>3 DEF NoneRaised
<1>5. \A m \in Wanted : m < group[1] => m \in Sent
  BY <1>3, WantedIs DEF NoneForgotten
<1> QED
  BY <1>4, <1>5

(* A record of the group raises: what is wanted is before it, and sent.    *)
LEMMA RaiseStep ==
  ASSUME Inv, SendRecord, Raises(file[Head(group)])
  PROVE  Inv'
<1> DEFINE n == group[1]
<1>1. /\ TypeOK /\ SentInOrder /\ ExcessIsOfOneGroup /\ step \in {"send", "last"}
      /\ GroupIsNext /\ NextIsLast /\ NoneForgotten /\ NoneRaised /\ ReadSoFar
      /\ group # << >>
  BY DEF Inv, SendRecord
<1>2. step' = "ended" /\ next' = NoLine /\ UNCHANGED <<file, line, group, sent>>
  BY DEF SendRecord, Ended
<1>3. /\ Wanted' = Wanted /\ Sent' = Sent /\ Line' = Line /\ Number' = Number
      /\ SentInOrder' /\ ExcessIsOfOneGroup'
  BY <1>1, <1>2, NothingSent
<1>4. TypeOK'
  BY <1>1, <1>2, <1>3 DEF TypeOK
<1>5. n \in Line /\ Head(group) = n /\ DatasetStart < n /\ n <= line /\ file[n].time >= 0
  <2>1. 1 \in 1 .. Len(group) /\ Head(group) = n
    BY <1>1, FileRange, EmptySeq DEF TypeOK
  <2> QED
    BY <1>1, <2>1, FileRange DEF GroupIsNext
<1>6. ~Passed(file[n])
  BY <1>1, <1>5, UsableIsWellformed DEF ReadSoFar
<1>7. Wanted \subseteq Sent
  BY <1>1, <1>5, <1>6, NothingWantedBehind, BeforeHeadIsPassed
<1> QED
  BY <1>2, <1>3, <1>4, <1>7 DEF Inv, EndsForAReason

(* The next record of the group is sent, or is not usable.                 *)
LEMMA SendStep ==
  ASSUME Inv, SendRecord, ~Raises(file[Head(group)])
  PROVE  Inv'
<1> DEFINE n == group[1]
<1>1. /\ TypeOK /\ SentInOrder /\ ExcessIsOfOneGroup /\ step \in {"send", "last"}
      /\ GroupIsNext /\ NextIsLast /\ NoneForgotten /\ NoneRaised /\ ReadSoFar
      /\ RestIsOfOneGroup
  BY DEF Inv, SendRecord
<1>2. /\ Len(file) \in Nat /\ Line \subseteq Nat /\ line \in Nat
      /\ DatasetStart \in Nat /\ RequestNum \in Nat \ {0} /\ Number \in Nat /\ Len(group) \in Nat
      /\ \A i \in 1 .. Len(group) : group[i] \in Line
      /\ \A i \in 1 .. Number : sent[i] \in Line
      /\ \A k \in Line : file[k].time \in Int
  BY <1>1, FileRange DEF Record
<1>3. UNCHANGED <<file, line, next, step>> /\ group # << >> /\ group' = Tail(group)
      /\ ~Raises(file[Head(group)])
  BY DEF SendRecord
<1>4. /\ Wanted' = Wanted /\ Line' = Line
  BY <1>3 DEF Wanted, Line
<1>5. Len(group) > 0 /\ Head(group) = n
  BY <1>1, <1>2, <1>3, EmptySeq DEF TypeOK
<1>6. /\ group' \in Seq(Line) /\ Len(group') = Len(group) - 1
      /\ \A i \in 1 .. Len(group') : group'[i] = group[i + 1] /\ i + 1 \in 1 .. Len(group)
  <2>1. /\ Tail(group) \in Seq(Line) /\ Len(Tail(group)) = Len(group) - 1
        /\ \A i \in 1 .. Len(Tail(group)) : Tail(group)[i] = group[i + 1]
    BY <1>1, <1>3, HeadTailProperties DEF TypeOK
  <2> QED
    BY <1>2, <1>3, <2>1
<1>7. 1 \in 1 .. Len(group) /\ n \in Line /\ n \in Nat
  <2>1. 1 \in 1 .. Len(group)
    BY <1>2, <1>5
  <2>2. n \in Line
    BY <1>2, <2>1
  <2> QED
    BY <1>2, <2>1, <2>2
<1>8. /\ DatasetStart < n /\ n <= line /\ file[n].time >= 0
      /\ \A i \in 1 .. Len(group') : n < group'[i] /\ file[group'[i]].time = file[n].time
      /\ \A i \in 1 .. Number : sent[i] < n
  <2>1. ASSUME NEW i \in 1 .. Len(group') PROVE n < group[i + 1]
    <3>1. i + 1 \in 1 .. Len(group) /\ 1 < i + 1
      BY <1>2, <1>6
    <3> QED
      BY <1>1, <1>7, <3>1 DEF GroupIsNext
  <2> QED
    BY <1>1, <1>6, <1>7, <2>1 DEF GroupIsNext
<1>9. Passed(file[n]) /\ (Usable(file[n]) <=> n \in Wanted)
  <2>1. Passed(file[n])
    BY <1>1, <1>3, <1>5, <1>7, <1>8, UsableIsWellformed DEF ReadSoFar
  <2>2. \A m \in Line : DatasetStart < m /\ m <= n => m = n \/ Passed(file[m])
    BY <1>1, <1>2, <1>3, <1>7, BeforeHeadIsPassed
  <2> QED
    BY <1>1, <1>7, <1>8, <2>1, <2>2, UsableIsWanted
<1>10. /\ sent' \in Seq(Line)
       /\ IF n \in Wanted
            THEN /\ Number' = Number + 1 /\ sent'[Number + 1] = n
                 /\ \A i \in 1 .. Number : sent'[i] = sent[i]
            ELSE sent' = sent
  <2>1. sent' = IF n \in Wanted THEN Append(sent, n) ELSE sent
    BY <1>5, <1>9 DEF SendRecord
  <2>2. CASE n \in Wanted
    BY <1>1, <1>7, <2>1, <2>2, AppendProperties DEF TypeOK, Number
  <2>3. CASE n \notin Wanted
    BY <1>1, <2>1, <2>3 DEF TypeOK
  <2> QED
    BY <2>2, <2>3
<1>11. TypeOK'
  BY <1>1, <1>3, <1>4, <1>6, <1>10 DEF TypeOK
<1>12. GroupIsNext'
  <2>1. \A i \in 1 .. Len(group') : /\ DatasetStart < group'[i] /\ group'[i] <= line'
                                   /\ file'[group'[i]].time >= 0
                                   /\ file'[group'[i]].time = file'[group'[1]].time
    <3>1. ASSUME NEW i \in 1 .. Len(group') PROVE file[group'[1]].time = file[group'[i]].time
      <4>1. 1 \in 1 .. Len(group')
        BY <1>2, <1>6
      <4> QED
        BY <1>8, <4>1
    <3> QED
      BY <1>1, <1>3, <1>6, <3>1 DEF GroupIsNext
  <2>2. \A i, j \in 1 .. Len(group') : i < j => group'[i] < group'[j]
    <3>1. ASSUME NEW i \in 1 .. Len(group'), NEW j \in 1 .. Len(group'), i < j
          PROVE  i + 1 < j + 1
      BY <1>2, <1>6, <3>1
    <3> QED
      BY <1>1, <1>6, <3>1 DEF GroupIsNext
  <2>3. ASSUME NEW i \in 1 .. Number'
        PROVE  sent'[i] <= line' /\ \A j \in 1 .. Len(group') : sent'[i] < group'[j]
    <3>1. CASE sent'[i] = n
      BY <1>3, <1>8, <3>1
    <3>2. CASE i \in 1 .. Number /\ sent'[i] = sent[i]
      BY <1>1, <1>3, <1>6, <3>2 DEF GroupIsNext
    <3>3. sent'[i] = n \/ (i \in 1 .. Number /\ sent'[i] = sent[i])
      <4>1. CASE n \in Wanted
        <5>1. i \in 1 .. Number \/ i = Number + 1
          BY <1>2, <1>10, <4>1
        <5> QED
          BY <1>10, <4>1, <5>1
      <4>2. CASE n \notin Wanted
        BY <1>10, <4>2 DEF Number
      <4> QED
        BY <4>1, <4>2
    <3> QED
      BY <3>1, <3>2, <3>3
  <2> QED
    BY <2>1, <2>2, <2>3 DEF GroupIsNext
<1>13. NextIsLast'
  <2>1. SUFFICES ASSUME step = "send" PROVE NextIsLast'
    BY <1>3 DEF NextIsLast
  <2>2. /\ next = line /\ DatasetStart < next /\ file[next].time >= 0
        /\ \A i \in 1 .. Len(group) : group[i] < next
        /\ \A i \in 1 .. Number : sent[i] < next
    BY <1>1, <2>1 DEF NextIsLast
  <2>3. \A i \in 1 .. Len(group') : group'[i] < next
    BY <1>6, <2>2
  <2>4. ASSUME NEW i \in 1 .. Number' PROVE sent'[i] < next
    <3>1. CASE n \in Wanted
      <4>1. i \in 1 .. Number \/ i = Number + 1
        BY <1>2, <1>10, <3>1
      <4>2. n < next
        BY <1>7, <2>2
      <4> QED
        BY <1>10, <2>2, <3>1, <4>1, <4>2
    <3>2. CASE n \notin Wanted
      BY <1>10, <2>2, <3>2 DEF Number
    <3> QED
      BY <3>1, <3>2
  <2> QED
    BY <1>3, <2>2, <2>3, <2>4 DEF NextIsLast
<1>14. Sent' = IF n \in Wanted THEN Sent \union {n} ELSE Sent
  <2>1. CASE n \in Wanted
    <3>1. \A i : i \in 1 .. Number' <=> i \in 1 .. Number \/ i = Number + 1
      BY <1>2, <1>10, <2>1
    <3> QED
      BY <1>10, <2>1, <3>1 DEF Sent
  <2>2. CASE n \notin Wanted
    BY <1>10, <2>2 DEF Sent, Number
  <2> QED
    BY <2>1, <2>2
<1>15. Gathered = Gathered' \union {n}
  <2>1. \A i \in 1 .. Len(group) : i = 1 \/ (i - 1 \in 1 .. Len(group') /\ group'[i - 1] = group[i])
    BY <1>2, <1>6
  <2>2. ASSUME NEW i \in 1 .. Len(group) PROVE group[i] \in Gathered' \union {n}
    <3>1. CASE i = 1
      BY <3>1
    <3>2. CASE i - 1 \in 1 .. Len(group') /\ group'[i - 1] = group[i]
      BY <3>2 DEF Gathered
    <3> QED
      BY <2>1, <3>1, <3>2
  <2>3. \A i \in 1 .. Len(group') : group'[i] \in Gathered
    BY <1>6 DEF Gathered
  <2>4. n \in Gathered
    BY <1>7 DEF Gathered
  <2>5. Gathered \subseteq Gathered' \union {n}
    BY <2>2 DEF Gathered
  <2>6. Gathered' \subseteq Gathered
    BY <2>3 DEF Gathered
  <2> QED
    BY <2>4, <2>5, <2>6
<1>b. NoneRaised'
  BY <1>1, <1>3, <1>4, <1>9, <1>15 DEF NoneRaised
<1>16. NoneForgotten'
  BY <1>1, <1>3, <1>4, <1>14, <1>15 DEF NoneForgotten
<1>17. SentInOrder'
  <2>1. CASE n \notin Wanted
    BY <1>1, <1>4, <1>10, <2>1 DEF SentInOrder, Sent, Number
  <2>2. CASE n \in Wanted
    <3>1. Sent' \subseteq Wanted'
      BY <1>1, <1>4, <1>14, <2>2 DEF SentInOrder
    <3>2. \A i \in 1 .. Number' : i \in 1 .. Number \/ i = Number + 1
      BY <1>2, <1>10, <2>2
    <3>3. \A i, j \in 1 .. Number' : i < j => sent'[i] < sent'[j]
      <4>1. ASSUME NEW i \in 1 .. Number', NEW j \in 1 .. Number', i < j
            PROVE  sent'[i] < sent'[j]
        <5>1. i \in 1 .. Number
          BY <1>2, <1>10, <2>2, <4>1
        <5>2. CASE j \in 1 .. Number
          BY <1>1, <1>10, <2>2, <4>1, <5>1, <5>2 DEF SentInOrder
        <5>3. CASE j = Number + 1
          BY <1>8, <1>10, <2>2, <5>1, <5>3
        <5> QED
          BY <3>2, <5>2, <5>3
      <4> QED
        BY <4>1
    <3>4. ASSUME NEW m \in Wanted, m < n PROVE m \in Sent
      BY <1>1, <1>3, <3>4, BeforeHeadIsPassed
    <3>5. \A m \in Wanted', i \in 1 .. Number' : m < sent'[i] => m \in Sent'
      BY <1>1, <1>4, <1>10, <1>14, <2>2, <3>2, <3>4 DEF SentInOrder
    <3> QED
      BY <3>1, <3>3, <3>5 DEF SentInOrder
  <2> QED
    BY <2>1, <2>2
<1>18. ExcessIsOfOneGroup' /\ RestIsOfOneGroup'
  <2>1. CASE n \notin Wanted
    BY <1>1, <1>3, <1>6, <1>10, <2>1 DEF ExcessIsOfOneGroup, RestIsOfOneGroup, Number
  <2>2. CASE n \in Wanted /\ Number >= RequestNum
    <3>1. file[n].time = file[sent[RequestNum]].time /\ sent'[RequestNum] = sent[RequestNum]
      BY <1>1, <1>2, <1>7, <1>10, <2>2 DEF RestIsOfOneGroup
    <3>2. \A i \in RequestNum .. Number' : (i \in RequestNum .. Number /\ i \in 1 .. Number) \/ i = Number + 1
      BY <1>2, <1>10, <2>2
    <3>3. \A i \in RequestNum .. Number' : file[sent'[i]].time = file[sent[RequestNum]].time
      BY <1>1, <1>10, <2>2, <3>1, <3>2 DEF ExcessIsOfOneGroup
    <3>4. \A i \in 1 .. Len(group') : file[group'[i]].time = file[sent[RequestNum]].time
      BY <1>8, <3>1
    <3> QED
      BY <1>3, <3>1, <3>3, <3>4 DEF ExcessIsOfOneGroup, RestIsOfOneGroup
  <2>3. CASE n \in Wanted /\ ~(Number >= RequestNum)
    <3>1. Number' >= RequestNum => RequestNum = Number + 1
      BY <1>2, <1>10, <2>3
    <3>2. \A i \in RequestNum .. Number' : i = Number + 1 /\ RequestNum = Number + 1
      BY <1>2, <1>10, <2>3
    <3>3. Number' >= RequestNum => sent'[RequestNum] = n
      BY <1>10, <2>3, <3>1
    <3> QED
      BY <1>3, <1>8, <1>10, <2>3, <3>2, <3>3 DEF ExcessIsOfOneGroup, RestIsOfOneGroup
  <2> QED
    BY <2>1, <2>2, <2>3
<1>19. ReadSoFar' /\ EndsForAReason'
  BY <1>1, <1>3, <1>4 DEF ReadSoFar, EndsForAReason
<1> QED
  BY <1>11, <1>12, <1>13, <1>b, <1>16, <1>17, <1>18, <1>19 DEF Inv

(* The whole group is sent.                                                *)
LEMMA GroupSentStep ==
  ASSUME Inv, GroupSent
  PROVE  Inv'
<1>1. /\ TypeOK /\ SentInOrder /\ ExcessIsOfOneGroup /\ step \in {"send", "last"} /\ group = << >>
      /\ GroupIsNext /\ NextIsLast /\ NoneForgotten /\ NoneRaised /\ ReadSoFar
      /\ RestIsOfOneGroup
  BY DEF Inv, GroupSent
<1>2. /\ Len(file) \in Nat /\ Line \subseteq Nat /\ line \in Nat
      /\ DatasetStart \in Nat /\ RequestNum \in Nat \ {0} /\ Number \in Nat
  BY <1>1, FileRange
<1>3. UNCHANGED <<file, line, sent>> /\ next' = NoLine
  BY DEF GroupSent
<1>4. /\ Wanted' = Wanted /\ Sent' = Sent /\ Line' = Line /\ Number' = Number
      /\ SentInOrder' /\ ExcessIsOfOneGroup'
  BY <1>1, <1>3, NothingSent
<1>5. Gathered = {}
  BY <1>1 DEF Gathered
<1>6. CASE step = "send"
  <2>1. step' = "read" /\ group' = <<next>>
    BY <1>6 DEF GroupSent
  <2>2. /\ next \in Line /\ next = line /\ DatasetStart < next /\ file[next].time >= 0
        /\ \A i \in 1 .. Number : sent[i] < next
    BY <1>1, <1>2, <1>6 DEF TypeOK, NextIsLast, NoLine
  <2>3. /\ group' \in Seq(Line) /\ Len(group') = 1 /\ group'[1] = next
        /\ \A i \in 1 .. Len(group') : i = 1
    BY <2>1, <2>2
  <2>4. TypeOK'
    BY <1>1, <1>3, <1>4, <2>1, <2>3 DEF TypeOK
  <2>5. GroupIsNext'
    <3>1. line <= line
      BY <1>2
    <3>2. \A i \in 1 .. Number : sent[i] <= line
      BY <1>1 DEF GroupIsNext
    <3>3. \A i, j \in 1 .. Len(group') : ~(i < j)
      BY <2>3
    <3> QED
      BY <1>3, <1>4, <2>2, <2>3, <3>1, <3>2, <3>3 DEF GroupIsNext
  <2>6. Gathered' = {next}
    BY <2>3 DEF Gathered
  <2>7. NoneForgotten'
    BY <1>1, <1>3, <1>4, <1>5, <2>6 DEF NoneForgotten
  <2>b. NoneRaised'
    BY <1>1, <1>3, <1>4, <1>5, <2>6 DEF NoneRaised
  <2>8. NextIsLast' /\ RestIsOfOneGroup'
    BY <2>1 DEF NextIsLast, RestIsOfOneGroup
  <2>9. ReadSoFar'
    <3>1. line <= Len(file)
      BY <2>2 DEF Line
    <3> QED
      BY <1>1, <1>3, <1>4, <2>1, <3>1 DEF ReadSoFar
  <2>10. EndsForAReason'
    BY <2>1 DEF EndsForAReason
  <2> QED
    BY <1>4, <2>4, <2>5, <2>7, <2>b, <2>8, <2>9, <2>10 DEF Inv
<1>7. CASE step = "last"
  <2>1. step' = "ended" /\ group' = << >>
    BY <1>7 DEF GroupSent
  <2>2. TypeOK'
    <3>1. group' \in Seq(Line')
      BY <2>1
    <3> QED
      BY <1>1, <1>3, <1>4, <2>1, <3>1 DEF TypeOK
  <2>3. Wanted \subseteq Sent
    <3>1. ASSUME NEW n \in Wanted PROVE n \in Sent
      <4>1. n \in Line /\ n \in Nat /\ n # NoLine /\ next = NoLine
        BY <1>1, <1>2, <1>7, WantedIs DEF TypeOK, Line, NoLine
      <4>2. n <= line
        BY <1>1, <1>2, <1>7, <4>1 DEF ReadSoFar, Line
      <4> QED
        BY <1>1, <1>5, <4>1, <4>2 DEF NoneForgotten
    <3> QED
      BY <3>1
  <2>4. EndsForAReason'
    BY <1>4, <2>3 DEF EndsForAReason
  <2> QED
    BY <1>4, <2>1, <2>2, <2>4 DEF Inv
<1> QED
  BY <1>1, <1>6, <1>7

(* Every step keeps the inductive invariant.                               *)
LEMMA InvStep == Inv /\ [Next]_vars => Inv'
<1> SUFFICES ASSUME Inv, [Next]_vars PROVE Inv'
  OBVIOUS
<1>1. CASE Read
  BY <1>1, ReadStep
<1>2. CASE SendRecord
  BY <1>2, RaiseStep, SendStep
<1>3. CASE GroupSent
  BY <1>3, GroupSentStep
<1>4. CASE UNCHANGED vars
  <2>1. UNCHANGED <<file, line, group, next, step, sent>>
    BY <1>4 DEF vars
  <2>2. UNCHANGED <<Wanted, Sent, Gathered, Line, Number>>
    BY <2>1 DEF Wanted, Sent, Gathered, Line, Number
  <2>3. TypeOK => TypeOK'
    BY <2>1, <2>2 DEF TypeOK
  <2>4. SentInOrder /\ ExcessIsOfOneGroup => SentInOrder' /\ ExcessIsOfOneGroup'
    BY <2>1, <2>2 DEF SentInOrder, ExcessIsOfOneGroup
  <2>5. EndsForAReason => EndsForAReason'
    BY <2>1, <2>2 DEF EndsForAReason
  <2>6. GroupIsNext /\ NextIsLast => GroupIsNext' /\ NextIsLast'
    BY <2>1, <2>2 DEF GroupIsNext, NextIsLast
  <2>7. NoneForgotten /\ ReadSoFar => NoneForgotten' /\ ReadSoFar'
    BY <2>1, <2>2 DEF NoneForgotten, ReadSoFar
  <2>8. RestIsOfOneGroup /\ NoneRaised => RestIsOfOneGroup' /\ NoneRaised'
    BY <2>1, <2>2 DEF RestIsOfOneGroup, NoneRaised
  <2> QED
    BY <2>1, <2>3, <2>4, <2>5, <2>6, <2>7, <2>8 DEF Inv
<1> QED
  BY <1>1, <1>2, <1>3, <1>4 DEF Next

(* So it always holds.                                                     *)
LEMMA AlwaysInv == Spec => []Inv
  BY InvInit, InvStep, PTL DEF Spec

(* Grouping, filtering and the late look at the number lose no record,     *)
(* send none twice and none out of order (generate_from_file).             *)
THEOREM GeneratorKeepsOrder == Spec => []GeneratorInv
<1>1. Inv => GeneratorInv
  BY DEF Inv, GeneratorInv
<1> QED
  BY <1>1, AlwaysInv, PTL

(* A file that parses is sent to its end, to the number asked for or to    *)
(* the first record that raises.                                           *)
THEOREM GeneratorSendsEnough == Spec => []SentEnough
<1>1. Inv => SentEnough
  BY DEF Inv, EndsForAReason, SentEnough
<1> QED
  BY <1>1, AlwaysInv, PTL
-----------------------------------------------------------------------------
(* The prefix table.  s lists prefixes of d blocks, each once, and not too *)
(* many of them.                                                           *)
Distinct(s) == \A i, j \in 1 .. Len(s) : s[i] = s[j] => i = j

Bucket(s, d) ==
  /\ s \in Seq(Prefixes) /\ Len(s) <= Capacity /\ Distinct(s)
  /\ \A x \in Items(s) : Len(x) = d

(* Where x is in the window w.                                             *)
Occurs(w, x) == {i \in 1 .. Len(w) : w[i] = x}

(* A detector whose counters are those of its window.                      *)
Detector(det) ==
  /\ det.window \in Seq(Prefixes) /\ Len(det.window) <= WindowSize
  /\ DOMAIN det.counts = Items(det.window)
  /\ \A x \in DOMAIN det.counts : det.counts[x] = Cardinality(Occurs(det.window, x))

(* The inductive invariant of the prefix table.                            *)
PrefixInv ==
  /\ buckets \in [Level -> Seq(Prefixes)] /\ \A d \in Level : Bucket(buckets[d], d)
  /\ Detector([window |-> window, counts |-> counts])

(* A set of numbers has a least.                                           *)
LEMMA LeastOf ==
  ASSUME NEW T, T \subseteq Nat, T # {}
  PROVE  Min(T) \in T /\ \A n \in T : Min(T) <= n
<1>1. PICK x \in T : \A y \in T : ~ (<<y, x>> \in OpToRel(<, Nat))
  BY NatLessThanWellFounded, WFMin
<1>2. \A y \in T : x <= y
  <2> SUFFICES ASSUME NEW y \in T, y < x PROVE FALSE
    OBVIOUS
  <2>1. x \in Nat /\ y \in Nat
    OBVIOUS
  <2>2. <<y, x>> \in OpToRel(<, Nat)
    BY <2>1 DEF OpToRel
  <2> QED
    BY <1>1, <2>2
<1> QED
  BY <1>1, <1>2 DEF Min

(* Prompts, their prefixes and levels.                                     *)
LEMMA PromptIs ==
  ASSUME NEW p \in Prompts
  PROVE  /\ p \in Seq(HashId) /\ Len(p) \in Nat \ {0} /\ Level \subseteq Nat
         /\ \A d \in 1 .. Len(p) : /\ d \in Level /\ Prefix(p, d) \in Prefixes
                                   /\ Len(Prefix(p, d)) = d
<1>1. p \in Seq(HashId) /\ p # << >>
  BY PrefixTableAssumption
<1>2. Len(p) \in Nat \ {0}
  BY <1>1
<1>3. Level \subseteq Nat
  <2>1. ASSUME NEW q \in Prompts PROVE 1 .. Len(q) \subseteq Nat
    BY PrefixTableAssumption
  <2> QED
    BY <2>1 DEF Level
<1>4. ASSUME NEW d \in 1 .. Len(p)
      PROVE  d \in Level /\ Prefix(p, d) \in Prefixes /\ Len(Prefix(p, d)) = d
  <2>1. \A i \in 1 .. d : p[i] \in HashId
    BY <1>1, <1>2
  <2>2. Len(SubSeq(p, 1, d)) = IF 1 <= d THEN d - 1 + 1 ELSE 0
    BY <1>2, <2>1, SubSeqProperties
  <2>3. Len(Prefix(p, d)) = d
    BY <1>2, <2>2 DEF Prefix
  <2>4. d \in Level /\ Prefix(p, d) \in Prefixes
    BY DEF Level, Prefixes
  <2> QED
    BY <2>3, <2>4
<1> QED
  BY <1>1, <1>2, <1>3, <1>4

(* The first level b has no entry of p for, or the last.                   *)
LEMMA FirstGap ==
  ASSUME NEW p \in Prompts, NEW b,
         NEW gaps, gaps = {d \in 1 .. Len(p) : Prefix(p, d) \notin Items(b[d])},
         NEW l, l = IF gaps = {} THEN Len(p) ELSE Min(gaps)
  PROVE  /\ l \in 1 .. Len(p)
         /\ \A d \in 1 .. Len(p) : d < l => Prefix(p, d) \in Items(b[d])
         /\ Prefix(p, l) \in Items(b[l]) => l = Len(p)
<1>1. Len(p) \in Nat \ {0}
  BY PromptIs
<1>2. CASE gaps = {}
  <2>1. l = Len(p) /\ Len(p) \in 1 .. Len(p)
    BY <1>1, <1>2
  <2> QED
    BY <1>2, <2>1
<1>3. CASE gaps # {}
  <2>1. gaps \subseteq Nat /\ gaps \subseteq 1 .. Len(p)
    BY <1>1
  <2>2. l \in gaps /\ \A d \in gaps : l <= d
    BY <1>3, <2>1, LeastOf
  <2>3. \A d \in 1 .. Len(p) : d < l => d \notin gaps
    BY <1>1, <2>1, <2>2
  <2> QED
    BY <2>1, <2>2, <2>3
<1> QED
  BY <1>2, <1>3

(* lookup goes down through entries to the first level without one.        *)
LEMMA LookupIs ==
  ASSUME NEW p \in Prompts
  PROVE  /\ Lookup(p) \in 1 .. Len(p)
         /\ \A d \in 1 .. Len(p) : d < Lookup(p) => Prefix(p, d) \in Items(buckets[d])
         /\ Prefix(p, Lookup(p)) \in Items(buckets[Lookup(p)]) => Lookup(p) = Len(p)
<1>1. Gaps(p) = {d \in 1 .. Len(p) : Prefix(p, d) \notin Items(buckets[d])}
  BY DEF Gaps
<1>2. Lookup(p) = IF Gaps(p) = {} THEN Len(p) ELSE Min(Gaps(p))
  BY DEF Lookup
<1> QED
  BY <1>1, <1>2, FirstGap

(* The same of the next lookup.                                            *)
LEMMA NextLookupIs ==
  ASSUME NEW p \in Prompts
  PROVE  /\ Lookup(p)' \in 1 .. Len(p)
         /\ Prefix(p, Lookup(p)') \in Items(buckets'[Lookup(p)']) => Lookup(p)' = Len(p)
<1>1. Gaps(p)' = {d \in 1 .. Len(p) : Prefix(p, d) \notin Items(buckets'[d])}
  BY DEF Gaps, Prefix, Items
<1>2. Lookup(p)' = IF Gaps(p)' = {} THEN Len(p) ELSE Min(Gaps(p)')
  BY DEF Lookup, Min
<1> QED
  BY <1>1, <1>2, FirstGap

(* A list without duplicates has as many members as places.                *)
LEMMA ItemsCount ==
  ASSUME NEW S, NEW s \in Seq(S), Distinct(s)
  PROVE  IsFiniteSet(Items(s)) /\ Cardinality(Items(s)) = Len(s)
<1> DEFINE f == [i \in 1 .. Len(s) |-> s[i]]
<1>1. Len(s) \in Nat
  OBVIOUS
<1>2. IsFiniteSet(1 .. Len(s)) /\ Cardinality(1 .. Len(s)) = Len(s)
  BY <1>1, FS_Interval
<1>3. f \in Bijection(1 .. Len(s), Items(s))
  BY DEF Bijection, Injection, Surjection, IsInjective, Items, Distinct
<1>4. ExistsBijection(1 .. Len(s), Items(s))
  BY <1>3 DEF ExistsBijection
<1> QED
  BY <1>2, <1>4, FS_Bijection

(* An item joins a list as its last.                                       *)
LEMMA AppendItem ==
  ASSUME NEW S, NEW s \in Seq(S), NEW x \in S
  PROVE  /\ Append(s, x) \in Seq(S) /\ Len(Append(s, x)) = Len(s) + 1
         /\ \A i \in 1 .. Len(s) : Append(s, x)[i] = s[i]
         /\ Append(s, x)[Len(s) + 1] = x
         /\ Items(Append(s, x)) = Items(s) \union {x}
         /\ x \notin Items(s) /\ Distinct(s) => Distinct(Append(s, x))
<1> DEFINE t == Append(s, x)
<1>1. /\ t \in Seq(S) /\ Len(t) = Len(s) + 1 /\ Len(s) \in Nat
      /\ \A i \in 1 .. Len(s) : t[i] = s[i]
      /\ t[Len(s) + 1] = x
  OBVIOUS
<1>2. /\ \A i \in 1 .. Len(t) : i \in 1 .. Len(s) \/ i = Len(s) + 1
      /\ \A i \in 1 .. Len(s) : i \in 1 .. Len(t)
      /\ Len(s) + 1 \in 1 .. Len(t)
  BY <1>1
<1> HIDE DEF t
<1>3. Items(t) = Items(s) \union {x}
  BY <1>1, <1>2 DEF Items
<1>4. ASSUME x \notin Items(s), Distinct(s) PROVE Distinct(t)
  <2>1. \A i \in 1 .. Len(s) : s[i] # x
    BY <1>4 DEF Items
  <2> QED
    BY <1>1, <1>2, <1>4, <2>1 DEF Distinct
<1> QED
  BY <1>1, <1>3, <1>4 DEF t

(* The first leaves it.                                                    *)
LEMMA TailItem ==
  ASSUME NEW S, NEW s \in Seq(S), s # << >>
  PROVE  /\ Tail(s) \in Seq(S) /\ Len(Tail(s)) = Len(s) - 1
         /\ \A i \in 1 .. Len(s) - 1 : Tail(s)[i] = s[i + 1] /\ i + 1 \in 1 .. Len(s)
         /\ Items(Tail(s)) \subseteq Items(s) /\ Head(s) \in Items(s) /\ Head(s) = s[1]
         /\ Items(s) \ {Head(s)} \subseteq Items(Tail(s))
         /\ Distinct(s) => Distinct(Tail(s)) /\ Items(Tail(s)) = Items(s) \ {Head(s)}
<1> DEFINE t == Tail(s)
<1>1. /\ t \in Seq(S) /\ Len(t) = Len(s) - 1 /\ Len(s) \in Nat \ {0} /\ Head(s) = s[1]
      /\ \A i \in 1 .. Len(t) : t[i] = s[i + 1]
  OBVIOUS
<1> HIDE DEF t
<1>2. \A i \in 1 .. Len(t) : i + 1 \in 1 .. Len(s) /\ i + 1 # 1
  BY <1>1
<1>3. 1 \in 1 .. Len(s) /\ \A i \in 1 .. Len(s) : i = 1 \/ (i - 1 \in 1 .. Len(t) /\ (i - 1) + 1 = i)
  BY <1>1
<1>4. Items(t) \subseteq Items(s)
  BY <1>1, <1>2 DEF Items
<1>5. Head(s) \in Items(s)
  BY <1>1, <1>3 DEF Items
<1>6. Items(s) \ {Head(s)} \subseteq Items(t)
  <2> SUFFICES ASSUME NEW i \in 1 .. Len(s), s[i] # s[1]
               PROVE  \E j \in 1 .. Len(t) : t[j] = s[i]
    BY <1>1 DEF Items
  <2>1. i - 1 \in 1 .. Len(t) /\ (i - 1) + 1 = i
    BY <1>3
  <2> QED
    BY <1>1, <2>1
<1>7. ASSUME Distinct(s) PROVE Distinct(t) /\ Items(t) = Items(s) \ {Head(s)}
  <2>1. ASSUME NEW i \in 1 .. Len(t), NEW j \in 1 .. Len(t), t[i] = t[j] PROVE i = j
    <3>1. i + 1 = j + 1
      BY <1>1, <1>2, <1>7, <2>1 DEF Distinct
    <3> QED
      BY <3>1
  <2>2. \A i \in 1 .. Len(t) : t[i] # s[1]
    BY <1>1, <1>2, <1>3, <1>7 DEF Distinct
  <2>3. Head(s) \notin Items(t)
    BY <1>1, <2>2 DEF Items
  <2> QED
    BY <1>4, <1>6, <2>1, <2>3 DEF Distinct
<1>8. \A i \in 1 .. Len(s) - 1 : t[i] = s[i + 1] /\ i + 1 \in 1 .. Len(s)
  BY <1>1, <1>2
<1> QED
  BY <1>1, <1>4, <1>5, <1>6, <1>7, <1>8 DEF t

(* Any of them leaves it.                                                  *)
LEMMA WithoutItem ==
  ASSUME NEW S, NEW s \in Seq(S), Distinct(s), NEW x
  PROVE  /\ Without(s, x) \in Seq(S) /\ Distinct(Without(s, x))
         /\ Items(Without(s, x)) = Items(s) \ {x}
         /\ Len(Without(s, x)) = IF x \in Items(s) THEN Len(s) - 1 ELSE Len(s)
<1>1. CASE x \notin Items(s)
  BY <1>1 DEF Without
<1>2. CASE x \in Items(s)
  <2> DEFINE k == CHOOSE j \in 1 .. Len(s) : s[j] = x
             t == [j \in 1 .. Len(s) - 1 |-> IF j < k THEN s[j] ELSE s[j + 1]]
             Old(i) == IF i < k THEN i ELSE i + 1
  <2>1. k \in 1 .. Len(s) /\ s[k] = x
    BY <1>2 DEF Items
  <2>2. Without(s, x) = t
    BY <1>2 DEF Without
  <2> HIDE DEF k
  <2>3. /\ Len(s) - 1 \in Nat /\ Len(s) \in Nat
        /\ \A i \in 1 .. Len(s) : s[i] \in S
    BY <2>1
  <2>4. \A i \in 1 .. Len(s) - 1 : Old(i) \in 1 .. Len(s) \ {k} /\ t[i] = s[Old(i)]
    BY <2>1, <2>3
  <2>5. t \in Seq(S) /\ Len(t) = Len(s) - 1
    <3>1. t \in [1 .. Len(s) - 1 -> S]
      BY <2>3, <2>4
    <3> QED
      BY <2>3, <3>1
  <2>6. \A i, j \in 1 .. Len(s) - 1 : Old(i) = Old(j) => i = j
    BY <2>1, <2>3
  <2>7. ASSUME NEW j \in 1 .. Len(s) \ {k}
        PROVE  \E i \in 1 .. Len(s) - 1 : Old(i) = j
    <3>1. CASE j < k
      <4>1. j \in 1 .. Len(s) - 1 /\ Old(j) = j
        BY <2>1, <2>3, <3>1
      <4> QED
        BY <4>1
    <3>2. CASE j > k
      <4>1. j - 1 \in 1 .. Len(s) - 1 /\ Old(j - 1) = j
        BY <2>1, <2>3, <3>2
      <4> QED
        BY <4>1
    <3> QED
      BY <2>1, <3>1, <3>2
  <2> HIDE DEF t, Old
  <2>8. Distinct(t)
    <3> SUFFICES ASSUME NEW i \in 1 .. Len(t), NEW j \in 1 .. Len(t), t[i] = t[j] PROVE i = j
      BY DEF Distinct
    <3>1. Old(i) = Old(j)
      BY <2>4, <2>5 DEF Distinct
    <3> QED
      BY <2>5, <2>6, <3>1
  <2>9. Items(t) = Items(s) \ {x}
    <3>1. ASSUME NEW i \in 1 .. Len(t) PROVE t[i] \in Items(s) /\ t[i] # x
      BY <2>1, <2>4, <2>5 DEF Items, Distinct
    <3>2. ASSUME NEW j \in 1 .. Len(s), s[j] # x PROVE s[j] \in Items(t)
      <4>1. PICK i \in 1 .. Len(s) - 1 : Old(i) = j
        BY <2>1, <2>7, <3>2
      <4> QED
        BY <2>4, <2>5, <4>1 DEF Items
    <3> QED
      BY <3>1, <3>2 DEF Items
  <2> QED
    BY <1>2, <2>2, <2>5, <2>8, <2>9
<1> QED
  BY <1>1, <1>2
-----------------------------------------------------------------------------
(* get changes the order of a bucket only.                                 *)
LEMMA TouchedBucket ==
  ASSUME NEW s, NEW d, Bucket(s, d), NEW x
  PROVE  Bucket(Touched(s, x), d) /\ Items(Touched(s, x)) = Items(s)
<1>1. CASE x \notin Items(s)
  BY <1>1 DEF Touched
<1>2. CASE x \in Items(s)
  <2> DEFINE w == Without(s, x)
  <2>1. s \in Seq(Prefixes) /\ Distinct(s) /\ Len(s) <= Capacity /\ Len(s) \in Nat
    BY DEF Bucket
  <2>2. x \in Prefixes
    BY <1>2, <2>1 DEF Items
  <2>3. /\ w \in Seq(Prefixes) /\ Distinct(w) /\ Items(w) = Items(s) \ {x} /\ Len(w) = Len(s) - 1
    BY <1>2, <2>1, WithoutItem
  <2> HIDE DEF w
  <2>4. /\ Append(w, x) \in Seq(Prefixes) /\ Len(Append(w, x)) = Len(w) + 1
        /\ Items(Append(w, x)) = Items(w) \union {x} /\ Distinct(Append(w, x))
    BY <2>2, <2>3, AppendItem
  <2>5. Items(Append(w, x)) = Items(s) /\ Len(Append(w, x)) = Len(s)
    BY <1>2, <2>1, <2>3, <2>4
  <2>6. Touched(s, x) = Append(w, x)
    BY <1>2 DEF Touched, w
  <2> QED
    BY <2>1, <2>4, <2>5, <2>6 DEF Bucket
<1> QED
  BY <1>1, <1>2

(* delete takes the entry off.                                             *)
LEMMA WithoutBucket ==
  ASSUME NEW s, NEW d, Bucket(s, d), NEW x
  PROVE  Bucket(Without(s, x), d) /\ Items(Without(s, x)) = Items(s) \ {x}
<1>1. s \in Seq(Prefixes) /\ Distinct(s) /\ Len(s) <= Capacity /\ Len(s) \in Nat /\ Capacity \in Nat
  BY PrefixTableAssumption DEF Bucket
<1>2. /\ Without(s, x) \in Seq(Prefixes) /\ Distinct(Without(s, x))
      /\ Items(Without(s, x)) = Items(s) \ {x}
      /\ Len(Without(s, x)) = IF x \in Items(s) THEN Len(s) - 1 ELSE Len(s)
  BY <1>1, WithoutItem
<1>3. Len(Without(s, x)) <= Capacity
  BY <1>1, <1>2
<1> QED
  BY <1>2, <1>3 DEF Bucket

(* put keeps the capacity; an entry that is there evicts none.             *)
LEMMA PutBucket ==
  ASSUME NEW s, NEW d, Bucket(s, d), NEW x \in Prefixes, Len(x) = d
  PROVE  /\ Bucket(Put(s, x), d)
         /\ x \in Items(s) => Items(Put(s, x)) = Items(s)
<1> DEFINE w == Without(s, x)
           l == Append(w, x)
<1>1. /\ s \in Seq(Prefixes) /\ Distinct(s) /\ Len(s) <= Capacity /\ Len(s) \in Nat
      /\ Capacity \in Nat
      /\ \A y \in Items(s) : Len(y) = d
  BY PrefixTableAssumption DEF Bucket
<1>2. /\ w \in Seq(Prefixes) /\ Distinct(w) /\ Items(w) = Items(s) \ {x}
      /\ Len(w) = IF x \in Items(s) THEN Len(s) - 1 ELSE Len(s)
  BY <1>1, WithoutItem
<1>3. Put(s, x) = IF Len(l) > Capacity THEN Tail(l) ELSE l
  BY DEF Put
<1> HIDE DEF w
<1>4. /\ l \in Seq(Prefixes) /\ Len(l) = Len(w) + 1 /\ Len(w) \in Nat
      /\ Items(l) = Items(w) \union {x} /\ Distinct(l)
  BY <1>2, AppendItem
<1> HIDE DEF l
<1>5. \A y \in Items(l) : Len(y) = d
  BY <1>1, <1>2, <1>4
<1>6. CASE Len(l) > Capacity
  <2>1. l # << >>
    BY <1>4
  <2>2. /\ Tail(l) \in Seq(Prefixes) /\ Len(Tail(l)) = Len(l) - 1
        /\ Items(Tail(l)) \subseteq Items(l) /\ Distinct(Tail(l))
    BY <1>4, <2>1, TailItem
  <2>3. Len(Tail(l)) <= Capacity
    BY <1>1, <1>2, <1>4, <2>2
  <2>4. x \notin Items(s)
    BY <1>1, <1>2, <1>4, <1>6
  <2> QED
    BY <1>3, <1>5, <1>6, <2>2, <2>3, <2>4 DEF Bucket
<1>7. CASE ~(Len(l) > Capacity)
  <2>1. Len(l) <= Capacity
    BY <1>1, <1>4, <1>7
  <2>2. x \in Items(s) => Items(l) = Items(s)
    BY <1>2, <1>4
  <2> QED
    BY <1>3, <1>4, <1>5, <1>7, <2>1, <2>2 DEF Bucket
<1> QED
  BY <1>6, <1>7
-----------------------------------------------------------------------------
(* An item that joins the window is once more in it.                       *)
LEMMA AppendOccurs ==
  ASSUME NEW w \in Seq(Prefixes), NEW x \in Prefixes, NEW y
  PROVE  /\ IsFiniteSet(Occurs(w, y)) /\ Cardinality(Occurs(w, y)) \in Nat
         /\ (Cardinality(Occurs(w, y)) = 0) = (y \notin Items(w))
         /\ Cardinality(Occurs(Append(w, x), y)) =
              Cardinality(Occurs(w, y)) + (IF y = x THEN 1 ELSE 0)
<1>1. Len(w) \in Nat /\ IsFiniteSet(1 .. Len(w))
  BY FS_Interval
<1>2. IsFiniteSet(Occurs(w, y)) /\ Cardinality(Occurs(w, y)) \in Nat
  BY <1>1, FS_Subset, FS_CardinalityType DEF Occurs
<1>3. (Cardinality(Occurs(w, y)) = 0) = (Occurs(w, y) = {})
  BY <1>2, FS_EmptySet
<1>4. (Occurs(w, y) = {}) = (y \notin Items(w))
  BY DEF Occurs, Items
<1> DEFINE t == Append(w, x)
<1>5. /\ Len(t) = Len(w) + 1 /\ t[Len(w) + 1] = x
      /\ \A i \in 1 .. Len(w) : t[i] = w[i]
  BY AppendItem
<1> HIDE DEF t
<1>6. \A i : i \in 1 .. Len(t) <=> i \in 1 .. Len(w) \/ i = Len(w) + 1
  BY <1>1, <1>5
<1>7. Len(w) + 1 \notin Occurs(w, y)
  BY <1>1 DEF Occurs
<1>8. CASE y = x
  <2>1. Occurs(t, y) = Occurs(w, y) \union {Len(w) + 1}
    BY <1>5, <1>6, <1>8 DEF Occurs
  <2>2. Cardinality(Occurs(t, y)) = Cardinality(Occurs(w, y)) + 1
    BY <1>2, <1>7, <2>1, FS_AddElement
  <2> QED
    BY <1>2, <1>3, <1>4, <1>8, <2>2 DEF t
<1>9. CASE y # x
  <2>1. Occurs(t, y) = Occurs(w, y)
    BY <1>5, <1>6, <1>9 DEF Occurs
  <2> QED
    BY <1>2, <1>3, <1>4, <1>9, <2>1 DEF t
<1> QED
  BY <1>8, <1>9

(* The oldest that leaves it is once less in it.                           *)
LEMMA TailOccurs ==
  ASSUME NEW w \in Seq(Prefixes), w # << >>, NEW y
  PROVE  Cardinality(Occurs(Tail(w), y)) =
           Cardinality(Occurs(w, y)) - (IF y = Head(w) THEN 1 ELSE 0)
<1> DEFINE t == Tail(w)
           Left == Occurs(w, y) \ {1}
           f == [i \in Occurs(t, y) |-> i + 1]
<1>1. /\ t \in Seq(Prefixes) /\ Len(t) = Len(w) - 1 /\ Head(w) = w[1]
      /\ \A i \in 1 .. Len(w) - 1 : t[i] = w[i + 1] /\ i + 1 \in 1 .. Len(w)
  BY TailItem
<1>2. Len(w) \in Nat \ {0}
  OBVIOUS
<1> HIDE DEF t
<1>3. f \in [Occurs(t, y) -> Left]
  BY <1>1, <1>2 DEF Occurs
<1>4. \A i, j \in Occurs(t, y) : f[i] = f[j] => i = j
  BY <1>1, <1>2 DEF Occurs
<1>5. ASSUME NEW j \in Left PROVE \E i \in Occurs(t, y) : f[i] = j
  <2>1. j - 1 \in 1 .. Len(w) - 1 /\ (j - 1) + 1 = j /\ w[j] = y
    BY <1>2 DEF Occurs
  <2>2. j - 1 \in Occurs(t, y)
    BY <1>1, <2>1 DEF Occurs
  <2> QED
    BY <2>1, <2>2
<1>6. f \in Bijection(Occurs(t, y), Left)
  BY <1>3, <1>4, <1>5 DEF Bijection, Injection, Surjection, IsInjective
<1>7. ExistsBijection(Occurs(t, y), Left)
  BY <1>6 DEF ExistsBijection
<1>8. IsFiniteSet(Occurs(t, y))
  <2>1. Len(t) \in Nat
    BY <1>1
  <2>2. IsFiniteSet(1 .. Len(t))
    BY <2>1, FS_Interval
  <2>3. Occurs(t, y) \in SUBSET (1 .. Len(t))
    BY DEF Occurs
  <2> QED
    BY <2>2, <2>3, FS_Subset
<1>9. Cardinality(Left) = Cardinality(Occurs(t, y))
  BY <1>7, <1>8, FS_Bijection
<1>10. IsFiniteSet(Occurs(w, y))
  <2>1. IsFiniteSet(1 .. Len(w))
    BY <1>2, FS_Interval
  <2>2. Occurs(w, y) \in SUBSET (1 .. Len(w))
    BY DEF Occurs
  <2> QED
    BY <2>1, <2>2, FS_Subset
<1>11. Cardinality(Left) = IF 1 \in Occurs(w, y) THEN Cardinality(Occurs(w, y)) - 1
                                                 ELSE Cardinality(Occurs(w, y))
  BY <1>10, FS_RemoveElement
<1>12. (1 \in Occurs(w, y)) = (y = Head(w))
  BY <1>1, <1>2 DEF Occurs
<1>13. Cardinality(Occurs(w, y)) \in Nat
  BY <1>10, FS_CardinalityType
<1> QED
  BY <1>9, <1>11, <1>12, <1>13 DEF t

(* observe keeps counters and window together: the counter of what leaves  *)
(* the window is dropped with its last occurrence.                         *)
LEMMA ObservedDetector ==
  ASSUME NEW det, Detector(det), NEW x \in Prefixes
  PROVE  Detector(Observed(det, x))
<1> DEFINE v == det.window
           w == Append(v, x)
           c == Counted(det.counts, x)
           n(y) == Cardinality(Occurs(w, y))
<1>1. /\ v \in Seq(Prefixes) /\ Len(v) <= WindowSize /\ DOMAIN det.counts = Items(v)
      /\ \A y \in Items(v) : det.counts[y] = Cardinality(Occurs(v, y))
  BY DEF Detector
<1>2. WindowSize \in Nat \ {0}
  BY PrefixTableAssumption
<1>3. w \in Seq(Prefixes) /\ Len(w) = Len(v) + 1 /\ Items(w) = Items(v) \union {x}
  BY <1>1, AppendItem
<1>4. /\ c = [y \in Items(w) |-> (IF y \in Items(v) THEN det.counts[y] ELSE 0)
                                  + (IF y = x THEN 1 ELSE 0)]
  BY <1>1, <1>3 DEF Counted
<1>5. ASSUME NEW y \in Items(w) PROVE c[y] = n(y)
  <2>1. /\ Cardinality(Occurs(v, y)) \in Nat
        /\ (Cardinality(Occurs(v, y)) = 0) = (y \notin Items(v))
        /\ n(y) = Cardinality(Occurs(v, y)) + (IF y = x THEN 1 ELSE 0)
    BY <1>1, AppendOccurs
  <2>2. (IF y \in Items(v) THEN det.counts[y] ELSE 0) = Cardinality(Occurs(v, y))
    BY <1>1, <2>1
  <2>3. c[y] = (IF y \in Items(v) THEN det.counts[y] ELSE 0) + (IF y = x THEN 1 ELSE 0)
    BY <1>4
  <2> QED
    BY <2>1, <2>2, <2>3, Zenon
<1>6. Observed(det, x) = IF Len(w) > WindowSize
                           THEN [window |-> Tail(w), counts |-> Uncounted(c, Head(w))]
                           ELSE [window |-> w, counts |-> c]
  BY DEF Observed
<1>7. DOMAIN c = Items(w)
  BY <1>4
<1> HIDE DEF c, w
<1>8. CASE ~(Len(w) > WindowSize)
  <2>1. Len(w) <= WindowSize
    BY <1>2, <1>3, <1>8
  <2>2. Observed(det, x) = [window |-> w, counts |-> c]
    BY <1>6, <1>8
  <2>3. Observed(det, x).window = w /\ Observed(det, x).counts = c
    BY <2>2
  <2> QED
    BY <1>3, <1>5, <1>7, <2>1, <2>3, Zenon DEF Detector
<1>9. CASE Len(w) > WindowSize
  <2> DEFINE t == Tail(w)
             h == Head(w)
             left == [c EXCEPT ![h] = @ - 1]
             u == Uncounted(c, h)
  <2>1. w # << >>
    BY <1>2, <1>9, <1>3
  <2>2. /\ t \in Seq(Prefixes) /\ Len(t) = Len(w) - 1 /\ Items(t) \subseteq Items(w)
        /\ h \in Items(w)
    BY <1>3, <2>1, TailItem
  <2>3. Len(t) <= WindowSize
    BY <1>1, <1>2, <1>3, <2>2
  <2>4. u = [y \in {z \in Items(w) : left[z] > 0} |-> left[y]]
    BY <1>7 DEF Uncounted
  <2>5. ASSUME NEW y \in Items(w)
        PROVE  left[y] = Cardinality(Occurs(t, y)) /\ (left[y] > 0) = (y \in Items(t))
    <3>1. Cardinality(Occurs(t, y)) = n(y) - (IF y = h THEN 1 ELSE 0)
      BY <1>3, <2>1, TailOccurs
    <3>2. left[y] = c[y] - (IF y = h THEN 1 ELSE 0)
      <4>1. n(y) \in Nat
        BY <1>3, AppendOccurs
      <4> QED
        BY <1>5, <1>7, <4>1
    <3>3. /\ Cardinality(Occurs(t, y)) \in Nat
          /\ (Cardinality(Occurs(t, y)) = 0) = (y \notin Items(t))
      BY <2>2, AppendOccurs
    <3>4. left[y] = Cardinality(Occurs(t, y))
      BY <1>5, <3>1, <3>2
    <3> HIDE DEF left, t
    <3> QED
      BY <3>3, <3>4
  <2> HIDE DEF left, u, t
  <2>6. {z \in Items(w) : left[z] > 0} = Items(t)
    BY <2>2, <2>5
  <2>7. DOMAIN u = Items(t) /\ \A y \in Items(t) : u[y] = Cardinality(Occurs(t, y))
    BY <2>2, <2>4, <2>5, <2>6
  <2>8. Observed(det, x) = [window |-> t, counts |-> u]
    BY <1>6, <1>9 DEF t, u
  <2>9. Observed(det, x).window = t /\ Observed(det, x).counts = u
    BY <2>8
  <2> QED
    BY <2>2, <2>3, <2>7, <2>9, Zenon DEF Detector
<1> QED
  BY <1>8, <1>9
-----------------------------------------------------------------------------
(* One level is written, the others are kept.                              *)
LEMMA WrittenLevel ==
  ASSUME NEW f \in [Level -> Seq(Prefixes)], \A e \in Level : Bucket(f[e], e),
         NEW d \in Level, NEW s, Bucket(s, d), NEW g, g = [f EXCEPT ![d] = s]
  PROVE  /\ g \in [Level -> Seq(Prefixes)] /\ \A e \in Level : Bucket(g[e], e)
         /\ g[d] = s /\ \A e \in Level : e # d => g[e] = f[e]
<1>1. g \in [Level -> Seq(Prefixes)] /\ g[d] = s /\ \A e \in Level : e # d => g[e] = f[e]
  BY DEF Bucket
<1>2. ASSUME NEW e \in Level PROVE Bucket(g[e], e)
  <2>1. CASE e = d
    BY <1>1, <2>1
  <2>2. CASE e # d
    BY <1>1, <2>2
  <2> QED
    BY <2>1, <2>2
<1> QED
  BY <1>1, <1>2

(* process writes the level it found and no other, and takes an entry off  *)
(* it that is not p's only if it puts one that was not there.              *)
LEMMA ProcessStep ==
  ASSUME PrefixInv, NEW p \in Prompts, Process(p)
  PROVE  /\ PrefixInv'
         /\ \A e \in Level : e # Lookup(p) => Items(buckets'[e]) = Items(buckets[e])
<1> DEFINE d == Lookup(p)
           x == Prefix(p, d)
           f == LookedUp(p)
           seen == Observed([window |-> window, counts |-> counts], x)
           above == IF d > 1 THEN Observed(seen, Prefix(p, d - 1)) ELSE seen
           expanded == IF Hot(seen, x) /\ d < Len(p) THEN [f EXCEPT ![d] = Put(f[d], x)] ELSE f
<1>1. /\ d \in 1 .. Len(p) /\ d \in Level /\ x \in Prefixes /\ Len(x) = d /\ Len(p) \in Nat
      /\ Level \subseteq Nat
  BY LookupIs, PromptIs
<1>2. /\ buckets' = IF d > 1 /\ Cold(above, Prefix(p, d - 1))
                      THEN [expanded EXCEPT ![d] = Without(expanded[d], x)]
                      ELSE expanded
      /\ window' = above.window /\ counts' = above.counts
  BY DEF Process
<1>3. /\ f \in [Level -> Seq(Prefixes)]
      /\ \A e \in Level : Bucket(f[e], e) /\ Items(f[e]) = Items(buckets[e])
  <2>1. ASSUME NEW e \in Level
        PROVE  Bucket(f[e], e) /\ Items(f[e]) = Items(buckets[e])
    <3>1. f[e] = IF e <= d THEN Touched(buckets[e], Prefix(p, e)) ELSE buckets[e]
      BY DEF LookedUp
    <3>2. Bucket(buckets[e], e)
      BY DEF PrefixInv
    <3> QED
      BY <3>1, <3>2, TouchedBucket
  <2> QED
    BY <2>1 DEF LookedUp, Bucket
<1> HIDE DEF f
<1>4. /\ expanded \in [Level -> Seq(Prefixes)] /\ \A e \in Level : Bucket(expanded[e], e)
      /\ \A e \in Level : e # d => expanded[e] = f[e]
  <2>1. CASE Hot(seen, x) /\ d < Len(p)
    <3>1. expanded = [f EXCEPT ![d] = Put(f[d], x)]
      BY <2>1
    <3>2. Bucket(Put(f[d], x), d)
      BY <1>1, <1>3, PutBucket
    <3> HIDE DEF expanded
    <3> QED
      BY <1>1, <1>3, <3>1, <3>2, WrittenLevel
  <2>2. CASE ~(Hot(seen, x) /\ d < Len(p))
    BY <1>3, <2>2
  <2> QED
    BY <2>1, <2>2
<1> HIDE DEF expanded
<1>5. /\ buckets' \in [Level -> Seq(Prefixes)] /\ \A e \in Level : Bucket(buckets'[e], e)
      /\ \A e \in Level : e # d => buckets'[e] = expanded[e]
  <2>1. CASE d > 1 /\ Cold(above, Prefix(p, d - 1))
    <3>1. buckets' = [expanded EXCEPT ![d] = Without(expanded[d], x)]
      BY <1>2, <2>1
    <3>2. Bucket(Without(expanded[d], x), d)
      BY <1>1, <1>4, WithoutBucket
    <3> QED
      BY <1>1, <1>4, <3>1, <3>2, WrittenLevel
  <2>2. CASE ~(d > 1 /\ Cold(above, Prefix(p, d - 1)))
    BY <1>2, <1>4, <2>2
  <2> QED
    BY <2>1, <2>2
<1>6. Detector(seen)
  BY <1>1, ObservedDetector DEF PrefixInv
<1> HIDE DEF seen
<1>7. Detector(above)
  <2>1. CASE d > 1
    <3>1. d - 1 \in 1 .. Len(p)
      BY <1>1, <2>1
    <3>2. Prefix(p, d - 1) \in Prefixes
      BY <3>1, PromptIs
    <3> QED
      BY <1>6, <2>1, <3>2, ObservedDetector
  <2>2. CASE ~(d > 1)
    BY <1>6, <2>2
  <2> QED
    BY <2>1, <2>2
<1> HIDE DEF above
<1>8. Detector([window |-> window', counts |-> counts'])
  BY <1>2, <1>7 DEF Detector
<1>9. PrefixInv'
  BY <1>5, <1>8 DEF PrefixInv, Bucket, Detector, Level, Prefixes, Prefix, Distinct, Items, Occurs
<1> QED
  BY <1>3, <1>4, <1>5, <1>9

(* The empty table.                                                        *)
LEMMA PrefixInit == TableInit => PrefixInv
<1> SUFFICES ASSUME TableInit PROVE PrefixInv
  OBVIOUS
<1>1. Capacity \in Nat /\ WindowSize \in Nat
  BY PrefixTableAssumption
<1>2. << >> \in Seq(Prefixes) /\ Len(<< >>) = 0 /\ Items(<< >>) = {} /\ Distinct(<< >>)
  BY DEF Items, Distinct
<1>3. \A d \in Level : Bucket(<< >>, d)
  BY <1>1, <1>2 DEF Bucket
<1>4. Detector([window |-> << >>, counts |-> [x \in {} |-> 0]])
  BY <1>1, <1>2 DEF Detector
<1> QED
  BY <1>3, <1>4 DEF TableInit, PrefixInv

(* Every request keeps the inductive invariant of the table.               *)
LEMMA AlwaysPrefixInv == TableSpec => []PrefixInv
<1>1. ASSUME PrefixInv, [TableNext]_tableVars PROVE PrefixInv'
  <2>1. CASE TableNext
    BY <1>1, <2>1, ProcessStep DEF TableNext
  <2>2. CASE UNCHANGED tableVars
    <3>1. UNCHANGED <<buckets, window, counts>>
      BY <2>2 DEF tableVars
    <3>2. buckets' \in [Level -> Seq(Prefixes)] /\ \A d \in Level : Bucket(buckets'[d], d)
      BY <1>1, <3>1 DEF PrefixInv
    <3>3. Detector([window |-> window', counts |-> counts'])
      BY <1>1, <3>1 DEF PrefixInv
    <3> QED
      BY <3>2, <3>3 DEF PrefixInv
  <2> QED
    BY <1>1, <2>1, <2>2
<1> QED
  BY PrefixInit, <1>1, PTL DEF TableSpec

(* Levels stay within their capacity and without duplicates, and the       *)
(* counters of the detector are those of its window (LRUCapBucket,         *)
(* HotPrefixDetector.observe).                                             *)
THEOREM PrefixTableInvariant == TableSpec => []TableInv
<1>1. ASSUME PrefixInv PROVE TableInv
  <2> DEFINE det == [window |-> window, counts |-> counts]
  <2>1. Detector(det) /\ det.window = window /\ det.counts = counts
    BY <1>1 DEF PrefixInv
  <2> HIDE DEF det
  <2>2. /\ window \in Seq(Prefixes) /\ Len(window) <= WindowSize
        /\ DOMAIN counts = Items(window)
        /\ \A x \in DOMAIN counts : counts[x] = Cardinality(Occurs(window, x))
    BY <2>1 DEF Detector
  <2>3. CountsMatchWindow
    BY <2>2 DEF CountsMatchWindow, Occurs
  <2>4. DOMAIN counts \subseteq Prefixes
    BY <2>2 DEF Items
  <2>5. \A x \in DOMAIN counts : counts[x] \in Nat
    <3>1. \A x \in Prefixes : Cardinality(Occurs(window, x)) \in Nat
      BY <2>2, AppendOccurs
    <3> QED
      BY <2>2, <2>4, <3>1
  <2>6. ASSUME NEW d \in Level
        PROVE  /\ buckets[d] \in Seq(Prefixes) /\ Len(buckets[d]) <= Capacity
               /\ Cardinality(Items(buckets[d])) = Len(buckets[d])
               /\ \A x \in Items(buckets[d]) : Len(x) = d
    <3>1. Bucket(buckets[d], d)
      BY <1>1 DEF PrefixInv
    <3> QED
      BY <3>1, ItemsCount DEF Bucket
  <2>7. buckets \in [Level -> Seq(Prefixes)]
    BY <1>1 DEF PrefixInv
  <2> QED
    BY <2>2, <2>3, <2>4, <2>5, <2>6, <2>7 DEF TableInv, TableTypeOK
<1> QED
  BY AlwaysPrefixInv, <1>1, PTL

(* A longer prefix of q is lost to a request for what q begins with, or to *)
(* an eviction (mark_shrink of the level process has found).               *)
LEMMA WhoShrinks ==
  ASSUME PrefixInv, NEW p \in Prompts, NEW q \in Prompts, Process(p), Lookup(q)' < Lookup(q)
  PROVE  /\ p # q
         /\ EvictsNothing(p) => Len(p) < Len(q) /\ Prefix(q, Len(p)) = p
<1> DEFINE e == Lookup(q)'
           x == Prefix(q, e)
           d == Lookup(p)
<1>1. /\ Lookup(q) \in 1 .. Len(q) /\ Len(q) \in Nat \ {0} /\ Len(p) \in Nat \ {0}
      /\ \A k \in 1 .. Len(q) : k < Lookup(q) => Prefix(q, k) \in Items(buckets[k])
  BY LookupIs, PromptIs
<1>2. /\ e \in 1 .. Len(q)
      /\ x \in Items(buckets'[e]) => e = Len(q)
  BY NextLookupIs
<1>3. e < Lookup(q) /\ e # Len(q) /\ e < Len(q)
  BY <1>1, <1>2
<1> HIDE DEF e
<1>4. x \in Items(buckets[e]) /\ x \notin Items(buckets'[e]) /\ e \in Level
  BY <1>1, <1>2, <1>3, PromptIs
<1>5. e = d
  BY <1>4, ProcessStep
<1>6. p # q
  BY <1>1, <1>3, <1>5
<1>7. ASSUME EvictsNothing(p) PROVE Len(p) < Len(q) /\ Prefix(q, Len(p)) = p
  <2>1. e <= Len(p) /\ x = Prefix(p, e)
    BY <1>4, <1>7, Zenon DEF EvictsNothing
  <2>2. d = Len(p)
    BY <1>4, <1>5, <2>1, LookupIs
  <2>3. Prefix(p, Len(p)) = p
    BY SubSeqFull, PromptIs DEF Prefix
  <2> QED
    BY <1>3, <1>5, <2>1, <2>2, <2>3
<1> QED
  BY <1>6, <1>7

(* A prompt is hashed by a shorter prefix only through another's request,  *)
(* and, but for evictions, one for a shorter prompt it begins with         *)
(* (LazyExpansionController.process).                                      *)
THEOREM ShrinksForShorterPrompts == TableSpec => OnlyShorterPromptsShrink
<1>1. ASSUME PrefixInv, [TableNext]_tableVars
      PROVE  [\A p, q \in Prompts :
                Process(p) /\ Lookup(q)' < Lookup(q) =>
                  /\ p # q
                  /\ EvictsNothing(p) => Len(p) < Len(q) /\ Prefix(q, Len(p)) = p]_tableVars
  BY <1>1, WhoShrinks
<1> QED
  BY AlwaysPrefixInv, <1>1, PTL DEF TableSpec, OnlyShorterPromptsShrink
=============================================================================
