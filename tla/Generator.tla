----------------------------- MODULE Generator -----------------------------
(***************************************************************************)
(* Which records of the dataset the generator sends, and in what order     *)
(* (request_generator.py).  It reads ahead by one record: records of equal *)
(* timestamps are gathered and sent, one at a time, when the next is read. *)
(* Sending a record is one step here; Dispatch models what it waits for.   *)
(* How long it sleeps between two requests is left out.                    *)
(***************************************************************************)
EXTENDS Integers, Sequences

CONSTANTS
  Files,         \* the datasets: sequences of records
  RequestNum,    \* request_num
  DatasetStart,  \* requests_num_dataset_start
  MaxModelLen    \* max_model_len

(* "parses": json.loads gives a record with a timestamp; "complete": the   *)
(* other keys are there with values of their types; "named": prompt and    *)
(* session ids are not empty, in their parts; "numeric": the native        *)
(* session id is a number; "input", "output" and "blocks" are lengths.     *)
Record == [parses : BOOLEAN, time : Int, complete : BOOLEAN, named : BOOLEAN,
           numeric : BOOLEAN, input : Nat, output : Int, blocks : Nat]

ASSUME GeneratorAssumption ==
  /\ Files \subseteq Seq(Record)
  /\ RequestNum \in Nat \ {0} /\ DatasetStart \in Nat /\ MaxModelLen \in Nat

VARIABLES
  file,          \* the dataset
  line,          \* cur_line_num
  group,         \* current_group, as line numbers
  next,          \* the line that ended the group while the group is sent
  step,          \* reading, sending the group, sending the last, ended
  sent           \* the lines that became requests: _cur_num_request many

vars == <<file, line, group, next, step, sent>>

NoLine == 0
Line == 1 .. Len(file)
Number == Len(sent)

TypeOK ==
  /\ file \in Files
  /\ line \in 0 .. Len(file) + DatasetStart + 1
  /\ group \in Seq(Line) /\ sent \in Seq(Line)
  /\ next \in Line \union {NoLine} /\ (next # NoLine <=> step = "send")
  /\ step \in {"read", "send", "last", "ended"}

Init ==
  /\ file \in Files
  /\ line = 0 /\ group = << >> /\ next = NoLine
  /\ step = "read"
  /\ sent = << >>
-----------------------------------------------------------------------------
(* valid_record_offline, and the guards of generate_request_offline.       *)
Valid(rec) == rec.time >= 0

(* Mutant of Usable: a prompt may be as long as the model's maximum.       *)
UsableAtLimit(rec) ==
  /\ rec.named
  /\ rec.input \in 1 .. MaxModelLen
  /\ rec.output > 0 /\ rec.blocks >= 1

Usable(rec) ==
  /\ rec.named
  /\ rec.input \in 1 .. MaxModelLen - 1
  /\ rec.output > 0 /\ rec.blocks >= 1

(* A key that is missing, and what int() does not take, raise.             *)
Raises(rec) == ~rec.complete \/ (Usable(rec) /\ ~rec.numeric)

Ended == step' = "ended" /\ next' = NoLine /\ UNCHANGED <<file, group, sent>>

(* Mutant of Gather: a group is ended by a later timestamp only.           *)
GatherUntilLater(n) ==
  IF group = << >> \/ file[n].time <= file[group[1]].time
    THEN group' = Append(group, n) /\ UNCHANGED <<step, next>>
    ELSE step' = "send" /\ next' = n /\ UNCHANGED group

(* A valid record joins the group, or ends it.                             *)
Gather(n) ==
  IF group = << >> \/ file[n].time = file[group[1]].time
    THEN group' = Append(group, n) /\ UNCHANGED <<step, next>>
    ELSE step' = "send" /\ next' = n /\ UNCHANGED group

(* A line that does not parse ends the loop; an invalid record is skipped. *)
ReadRecord(n) ==
  IF ~file[n].parses THEN Ended
  ELSE /\ IF Valid(file[n]) THEN Gather(n) ELSE UNCHANGED <<group, next, step>>
       /\ UNCHANGED <<file, sent>>

(* Mutant of Read: a line is counted only if there is one.                 *)
ReadCountsLines ==
  /\ step = "read"
  /\ IF Number >= RequestNum THEN Ended /\ UNCHANGED line
     ELSE /\ line' = IF line < Len(file) THEN line + 1 ELSE line
          /\ \/ line' <= DatasetStart /\ UNCHANGED <<file, group, next, step, sent>>
             \/ /\ line' > DatasetStart /\ line = Len(file)
                /\ step' = "last" /\ UNCHANGED <<file, group, next, sent>>
             \/ /\ line' > DatasetStart /\ line < Len(file)
                /\ ReadRecord(line')

(* One turn of the loop of generate_from_file: enough is sent, the line is *)
(* before the start, the file is at its end, or there is a line to parse.  *)
Read ==
  /\ step = "read"
  /\ IF Number >= RequestNum THEN Ended /\ UNCHANGED line
     ELSE /\ line' = line + 1
          /\ \/ line' <= DatasetStart /\ UNCHANGED <<file, group, next, step, sent>>
             \/ /\ line' > DatasetStart /\ line' > Len(file)
                /\ step' = "last" /\ UNCHANGED <<file, group, next, sent>>
             \/ line' \in DatasetStart + 1 .. Len(file) /\ ReadRecord(line')

(* generate_request_offline of the next record of the group: what it       *)
(* raises ends the loop.  No scheduler leaves the replica None, the third  *)
(* thing to raise (_generate_request_helper).                              *)
SendRecord ==
  /\ step \in {"send", "last"} /\ group # << >>
  /\ UNCHANGED <<file, line>>
  /\ IF Raises(file[Head(group)]) THEN Ended
     ELSE /\ sent' = IF Usable(file[Head(group)]) THEN Append(sent, Head(group)) ELSE sent
          /\ group' = Tail(group)
          /\ UNCHANGED <<next, step>>

(* Mutant of GroupSent: the record that ended the group is not kept.       *)
GroupSentLosesNext ==
  /\ step \in {"send", "last"} /\ group = << >>
  /\ group' = << >>
  /\ step' = IF step = "send" THEN "read" ELSE "ended"
  /\ next' = NoLine
  /\ UNCHANGED <<file, line, sent>>

(* The group is sent: the record that ended it begins the next.            *)
GroupSent ==
  /\ step \in {"send", "last"} /\ group = << >>
  /\ group' = IF step = "send" THEN <<next>> ELSE << >>
  /\ step' = IF step = "send" THEN "read" ELSE "ended"
  /\ next' = NoLine
  /\ UNCHANGED <<file, line, sent>>

Next == Read \/ SendRecord \/ GroupSent

Spec == Init /\ [][Next]_vars
FairSpec == Spec /\ WF_vars(Next)
-----------------------------------------------------------------------------
(* What the dataset asks for: records to send, records the loop gets past, *)
(* and the lines that should become requests.                              *)
Wellformed(rec) ==
  /\ rec.named /\ 0 < rec.input /\ rec.input < MaxModelLen
  /\ rec.output > 0 /\ rec.blocks > 0

Passed(rec) ==
  rec.parses /\ (rec.time >= 0 => rec.complete /\ (Wellformed(rec) => rec.numeric))

Wanted ==
  {n \in Line : /\ n > DatasetStart /\ file[n].time >= 0 /\ Wellformed(file[n])
                /\ \A m \in DatasetStart + 1 .. n : Passed(file[m])}

Sent == {sent[i] : i \in 1 .. Number}

(* Gathering and sending groups, with invalid and unusable records in      *)
(* between, keeps the order of the file, loses none and sends none twice:  *)
(* what is sent is the first so many of the lines wanted.                  *)
SentInOrder ==
  /\ Sent \subseteq Wanted
  /\ \A i, j \in 1 .. Number : i < j => sent[i] < sent[j]
  /\ \A n \in Wanted, i \in 1 .. Number : n < sent[i] => n \in Sent

(* Generation stops short of the dataset only if enough is sent or a line  *)
(* does not parse.  A record that raises while it is sent costs what is    *)
(* behind it, never what is before it; a line that does not parse also     *)
(* costs the group that was gathered.                                      *)
SentEnough ==
  step = "ended" /\ (\A n \in Line : file[n].parses) =>
    Wanted \subseteq Sent \/ Number >= RequestNum

(* What is sent beyond request_num has the timestamp of the last that was  *)
(* asked for: the number is looked at between two groups.                  *)
ExcessIsOfOneGroup ==
  \A i \in RequestNum .. Number : file[sent[i]].time = file[sent[RequestNum]].time

(* What has been sent is, in order, what was to be sent, up to the end of  *)
(* the group with which the number asked for is reached.                   *)
GeneratorInv == TypeOK /\ SentInOrder /\ ExcessIsOfOneGroup

(* Generation ends, even when it is to start behind the end of the file.   *)
GenerationEnds == <>(step = "ended")
=============================================================================
