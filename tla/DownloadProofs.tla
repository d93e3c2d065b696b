---------------------------- MODULE DownloadProofs ----------------------------
(* Every step of a download keeps the .part file and the files in place whole, *)
(* for every mirror, cap and number of attempts.                               *)
EXTENDS Download, TLAPS

\* The bytes of a .part file are at their places and within the cap.
Placed(bytes) == /\ \A i \in 1..Len(bytes) : bytes[i].at = i
                 /\ Len(bytes) <= MaxBytes

Part == part[call.name]

\* What FilesAreWhole needs of the call under way: the size it counts is that of the
\* .part, unless it starts again, and the reply goes on where the .part ends.
PartIsPlaced ==
    /\ call.pc = "open" /\ call.size # 0 => Placed(Part) /\ Len(Part) = call.size
    /\ call.pc = "read" =>
           /\ Placed(Part) /\ Len(Part) = call.size /\ call.sent = call.size
           /\ call.size <= Expected
           /\ call.size = Expected /\ Part # << >> => Part[Len(Part)].version = call.version

DownloadInv == DownloadTypeOK /\ FilesAreWhole /\ PartIsPlaced

LEMMA Values ==
    /\ 1 \in Versions /\ 1 \in 1..Attempts
    /\ \A u \in Urls : \A v \in Versions : Length[u][v] \in Nat
    /\ NoCall \in Calls /\ Absent \in Files /\ << >> \in Seq(Byte)
  <1>1. 1 \in Versions /\ 1 \in 1..Attempts
    BY DownloadAssumption DEF Versions
  <1>2. (CHOOSE u \in Urls : TRUE) \in Urls /\ (CHOOSE n \in Names : TRUE) \in Names
    BY DownloadAssumption
  <1>3. NoCall \in Calls
    BY <1>1, <1>2 DEF NoCall, Calls
  <1>4. Absent \in Files
    BY <1>2 DEF Absent, Files
  <1> QED
    BY <1>1, <1>3, <1>4, DownloadAssumption

LEMMA InitIsSound == DownloadInit => DownloadInv
  <1> SUFFICES ASSUME DownloadInit PROVE DownloadInv
      OBVIOUS
  <1>1. DownloadTypeOK
    BY Values DEF DownloadInit, DownloadTypeOK
  <1>2. \A n \in Names : ~disk[n].there
    BY DEF DownloadInit, Absent
  <1>3. call.pc = "idle"
    BY DEF DownloadInit, NoCall
  <1> QED
    BY <1>1, <1>2, <1>3 DEF DownloadInv, FilesAreWhole, PartIsPlaced

LEMMA CallFields ==
    ASSUME DownloadTypeOK
    PROVE  /\ call.url \in Urls /\ call.name \in Names /\ call.attempt \in 1..Attempts
           /\ call.size \in Nat /\ call.sent \in Nat /\ call.version \in Versions
           /\ call.announced \in BOOLEAN /\ Part \in Seq(Byte)
           /\ Expected \in Nat /\ Served \in Nat /\ mirror[call.url] \in Versions
           /\ MaxBytes \in Nat /\ Len(Part) \in Nat
  <1>1. /\ call.url \in Urls /\ call.name \in Names /\ call.attempt \in 1..Attempts
        /\ call.size \in Nat /\ call.sent \in Nat /\ call.version \in Versions
        /\ call.announced \in BOOLEAN
    BY DEF DownloadTypeOK, Calls
  <1>2. Part \in Seq(Byte) /\ mirror[call.url] \in Versions
    BY <1>1 DEF DownloadTypeOK, Part
  <1> QED
    BY <1>1, <1>2, Values, DownloadAssumption DEF Expected, Served

\* Nothing under way, and no file changed.
LEMMA GiveIsSound ==
    ASSUME DownloadInv, NEW outcome \in Outcomes, Give(outcome), UNCHANGED << mirror, disk >>
    PROVE  DownloadInv'
  <1>1. call' \in Calls /\ call'.pc = outcome
    BY Values, CallFields DEF Give, Calls, DownloadInv, NoCall
  <1>2. part' \in [Names -> Seq(Byte)]
    BY Values DEF Give, DownloadInv, DownloadTypeOK
  <1>3. PartIsPlaced'
    BY <1>1 DEF PartIsPlaced, Outcomes
  <1>4. FilesAreWhole'
    BY DEF DownloadInv, FilesAreWhole
  <1> QED
    BY <1>1, <1>2, <1>3, <1>4 DEF DownloadInv, DownloadTypeOK

LEMMA AgainIsSound ==
    ASSUME DownloadInv, NEW size \in Nat, Again(size), UNCHANGED << mirror, disk >>,
           size # 0 => Placed(Part) /\ Len(Part) = size
    PROVE  DownloadInv'
  <1>1. CASE LastTry
    BY <1>1, GiveIsSound DEF Again, Outcomes
  <1>2. CASE ~LastTry
    <2>1. NextTry \in 1..Attempts
      BY <1>2, CallFields, DownloadAssumption DEF LastTry, NextTry, DownloadInv
    <2>2. /\ call' = [call EXCEPT !.pc = "open", !.attempt = NextTry, !.size = size]
          /\ part' = part
      BY <1>2 DEF Again
    <2>3. call' \in Calls
      BY <2>1, <2>2 DEF Calls, DownloadInv, DownloadTypeOK
    <2>4. call'.pc = "open" /\ call'.size = size /\ call'.name = call.name
      BY <2>2 DEF Calls, DownloadInv, DownloadTypeOK
    <2>5. PartIsPlaced'
      BY <2>2, <2>4 DEF PartIsPlaced, Part, Placed
    <2>6. FilesAreWhole'
      BY DEF DownloadInv, FilesAreWhole
    <2> QED
      BY <2>2, <2>3, <2>5, <2>6 DEF DownloadInv, DownloadTypeOK
  <1> QED
    BY <1>1, <1>2

LEMMA AnswerIsSound ==
    ASSUME DownloadInv, NEW start \in Starts, NEW announced \in BOOLEAN, Answer(start, announced)
    PROVE  DownloadInv'
  <1> USE CallFields DEF DownloadInv
  <1>1. start \in Nat
    BY DEF Starts
  <1>2. CASE Keeps(start) = 0 /\ start # 0
    BY <1>2, AgainIsSound DEF Answer
  <1>3. CASE ~(Keeps(start) = 0 /\ start # 0)
    <2>1. /\ call.pc = "open" /\ UNCHANGED << mirror, disk >>
          /\ call' = [call EXCEPT !.pc = "read", !.size = Keeps(start), !.sent = start,
                                  !.version = mirror[call.url], !.announced = announced]
          /\ part' = [part EXCEPT ![call.name] = IF Keeps(start) = 0 THEN << >> ELSE @]
      BY <1>3 DEF Answer
    <2>2. Keeps(start) = start /\ (start # 0 => start = call.size)
      BY <1>1, <1>3 DEF Keeps
    <2>3. call' \in Calls
      BY <1>1, <2>1, <2>2 DEF Calls, DownloadTypeOK
    <2>4. /\ call'.pc = "read" /\ call'.size = start /\ call'.sent = start
          /\ call'.version = mirror[call.url] /\ call'.name = call.name /\ call'.url = call.url
      BY <2>1, <2>2 DEF Calls, DownloadTypeOK
    <2>5. part' \in [Names -> Seq(Byte)] /\ Part' = IF start = 0 THEN << >> ELSE Part
      BY <2>1, <2>2, <2>4, Values DEF DownloadTypeOK, Part
    <2>6. Expected' = Served
      BY <2>4 DEF Expected, Served
    <2>7. start = 0 \/ start < Served
      BY <1>1 DEF Starts
    <2>8. PartIsPlaced'
      <3>1. CASE start = 0
        <4>1. Part' = << >> /\ Len(Part') = 0
          BY <3>1, <2>5
        <4>2. Placed(Part')
          BY <4>1 DEF Placed
        <4> QED
          BY <3>1, <4>1, <4>2, <2>4, <2>6 DEF PartIsPlaced, Placed
      <3>2. CASE start # 0
        <4>1. Part' = Part /\ Placed(Part) /\ Len(Part) = start
          BY <3>2, <2>1, <2>2, <2>5 DEF PartIsPlaced
        <4>2. start < Served
          BY <3>2, <2>7
        <4> QED
          BY <4>1, <4>2, <2>4, <2>6, <1>1 DEF PartIsPlaced, Placed
      <3> QED
        BY <3>1, <3>2
    <2>9. FilesAreWhole'
      BY <2>1 DEF FilesAreWhole
    <2> QED
      BY <2>1, <2>3, <2>5, <2>8, <2>9 DEF DownloadTypeOK
  <1> QED
    BY <1>2, <1>3

LEMMA ChunkIsSound ==
    ASSUME DownloadInv, NEW stopped \in BOOLEAN, Chunk(stopped)
    PROVE  DownloadInv'
  <1> USE CallFields DEF DownloadInv
  <1>1. CASE stopped \/ call.size = MaxBytes
    BY <1>1, GiveIsSound DEF Chunk, Outcomes
  <1>2. CASE ~(stopped \/ call.size = MaxBytes)
    <2> DEFINE byte == [version |-> call.version, at |-> call.sent + 1]
    <2>1. /\ call.pc = "read" /\ call.sent < Expected /\ UNCHANGED << mirror, disk >>
          /\ call' = [call EXCEPT !.size = call.size + 1, !.sent = call.sent + 1]
          /\ part' = [part EXCEPT ![call.name] = Append(Part, byte)]
      BY <1>2 DEF Chunk, Part
    <2>2. byte \in Byte
      BY DEF Byte
    <2>3. call' \in Calls
      <3>1. call.size + 1 \in Nat /\ call.sent + 1 \in Nat
        OBVIOUS
      <3> QED
        BY <2>1, <3>1 DEF Calls, DownloadTypeOK
    <2>4. /\ call'.pc = "read" /\ call'.size = call.size + 1 /\ call'.sent = call.sent + 1
          /\ call'.version = call.version /\ call'.name = call.name /\ call'.url = call.url
      BY <2>1 DEF Calls, DownloadTypeOK
    <2>5. Append(Part, byte) \in Seq(Byte)
      BY <2>2
    <2>6. part' \in [Names -> Seq(Byte)] /\ Part' = Append(Part, byte)
      BY <2>1, <2>4, <2>5 DEF DownloadTypeOK, Part
    <2>7. Expected' = Expected
      BY <2>4 DEF Expected
    <2>8. Placed(Part) /\ Len(Part) = call.size /\ call.sent = call.size /\ call.size <= Expected
      BY <2>1 DEF PartIsPlaced
    <2>9. /\ Len(Part') = call.size + 1
          /\ \A i \in 1..Len(Part) : Part'[i] = Part[i]
          /\ Part'[call.size + 1] = byte
      BY <2>6, <2>8, <2>2
    <2>10. call.size < MaxBytes
      BY <1>2, <2>8 DEF Placed
    <2>11. Placed(Part')
      BY <2>8, <2>9, <2>10 DEF Placed
    <2>12. PartIsPlaced'
      <3>1. Placed(Part)'
        BY <2>11 DEF Placed
      <3> QED
        BY <3>1, <2>1, <2>4, <2>7, <2>8, <2>9 DEF PartIsPlaced
    <2>13. FilesAreWhole'
      BY <2>1 DEF FilesAreWhole
    <2> QED
      BY <2>1, <2>3, <2>6, <2>12, <2>13 DEF DownloadTypeOK
  <1> QED
    BY <1>1, <1>2

LEMMA EndIsSound == ASSUME DownloadInv, EndOfReply PROVE DownloadInv'
  <1> USE CallFields DEF DownloadInv
  <1>1. /\ call.pc = "read" /\ UNCHANGED mirror
        /\ call.sent = Expected \/ call.announced
        /\ Placed(Part) /\ Len(Part) = call.size /\ call.sent = call.size
        /\ call.size <= Expected
        /\ call.size = Expected /\ Part # << >> => Part[Len(Part)].version = call.version
    BY DEF EndOfReply, PartIsPlaced
  <1>2. CASE TooShort
    BY <1>1, <1>2, AgainIsSound DEF EndOfReply
  <1>3. CASE ~TooShort
    <2> DEFINE file == [there |-> TRUE, url |-> call.url, bytes |-> Part]
    <2>1. disk' = [disk EXCEPT ![call.name] = file] /\ Give("done")
      BY <1>3 DEF EndOfReply, Part
    <2>2. file \in Files
      BY DEF Files
    <2>3. disk' \in [Names -> Files]
      BY <2>1, <2>2 DEF DownloadTypeOK
    <2>4. call.size = Expected
      BY <1>1, <1>3 DEF TooShort
    <2>5. IsWhole(file)
      <3>1. Len(file.bytes) = Length[file.url][call.version]
        BY <1>1, <2>4 DEF Expected
      <3>2. \A i \in 1..Len(file.bytes) : file.bytes[i].at = i
        BY <1>1 DEF Placed
      <3>3. file.bytes # << >> => file.bytes[Len(file.bytes)].version = call.version
        BY <1>1, <2>4
      <3> HIDE DEF file
      <3> QED
        BY <3>1, <3>2, <3>3 DEF IsWhole
    <2>6. Len(file.bytes) <= MaxBytes
      BY <1>1 DEF Placed
    <2>7. FilesAreWhole'
      <3> SUFFICES ASSUME NEW n \in Names, disk'[n].there
                   PROVE  IsWhole(disk'[n]) /\ Len(disk'[n].bytes) <= MaxBytes
          BY DEF FilesAreWhole, IsWhole
      <3>1. CASE n = call.name
        <4>1. disk'[n] = file
          BY <3>1, <2>1 DEF DownloadTypeOK
        <4> HIDE DEF file
        <4> QED
          BY <4>1, <2>5, <2>6
      <3>2. CASE n # call.name
        BY <3>2, <2>1 DEF DownloadTypeOK, FilesAreWhole
      <3> QED
        BY <3>1, <3>2
    <2>8. call' \in Calls /\ call'.pc = "done"
      BY <2>1, Values DEF Give, Calls, NoCall, Outcomes
    <2>9. part' \in [Names -> Seq(Byte)]
      BY <2>1, Values DEF Give, DownloadTypeOK
    <2>10. PartIsPlaced'
      BY <2>8 DEF PartIsPlaced
    <2> HIDE DEF file
    <2> QED
      BY <1>1, <2>3, <2>7, <2>8, <2>9, <2>10 DEF DownloadTypeOK
  <1> QED
    BY <1>2, <1>3

LEMMA StepIsSound ==
    ASSUME DownloadInv, NEW stopped \in BOOLEAN, DownloadStep(stopped)
    PROVE  DownloadInv'
  <1> USE CallFields DEF DownloadInv
  <1>1. CASE \E start \in Starts, a \in BOOLEAN : Answer(start, a)
    BY <1>1, AnswerIsSound
  <1>2. CASE NoAnswer
    BY <1>2, AgainIsSound DEF NoAnswer, PartIsPlaced
  <1>3. CASE Refuse \/ CannotWrite
    BY <1>3, GiveIsSound DEF Refuse, CannotWrite, Outcomes
  <1>4. CASE Chunk(stopped)
    BY <1>4, ChunkIsSound
  <1>5. CASE Interrupted
    BY <1>5, AgainIsSound DEF Interrupted, PartIsPlaced
  <1>6. CASE EndOfReply
    BY <1>6, EndIsSound
  <1> QED
    BY <1>1, <1>2, <1>3, <1>4, <1>5, <1>6 DEF DownloadStep

LEMMA FetchIsSound ==
    ASSUME DownloadInv, NEW u \in Urls, NEW n \in Names, Fetch(u, n)
    PROVE  DownloadInv'
  <1> USE DEF DownloadInv
  <1>1. call' \in Calls /\ call'.pc = "open" /\ call'.size = 0
    BY Values DEF Fetch, NoCall, Calls
  <1>2. part' \in [Names -> Seq(Byte)] /\ UNCHANGED << mirror, disk >>
    BY Values DEF Fetch, DownloadTypeOK
  <1>3. FilesAreWhole'
    BY <1>2 DEF FilesAreWhole
  <1> QED
    BY <1>1, <1>2, <1>3 DEF DownloadTypeOK, PartIsPlaced

\* A reply that is being read goes on with the version it began with.
LEMMA PublishIsSound ==
    ASSUME DownloadInv, NEW u \in Urls, Publish(u)
    PROVE  DownloadInv'
  <1> USE DEF DownloadInv
  <1>1. mirror' \in [Urls -> Versions] /\ UNCHANGED << disk, part, call >>
    BY DownloadAssumption DEF Publish, DownloadTypeOK, Versions
  <1>2. FilesAreWhole' /\ PartIsPlaced'
    BY <1>1 DEF FilesAreWhole, PartIsPlaced, Part, Placed, Expected
  <1> QED
    BY <1>1, <1>2 DEF DownloadTypeOK

\* The files of the disk may be removed, or copied from one another, and the call lost.
LEMMA MovedIsSound ==
    ASSUME DownloadInv, UNCHANGED << mirror, part >>,
           call' = call \/ call' = NoCall,
           disk' \in [Names -> {Absent} \cup {disk[n] : n \in Names}]
    PROVE  DownloadInv'
  <1> USE DEF DownloadInv
  <1>1. call' \in Calls
    BY Values DEF DownloadTypeOK
  <1>2. PartIsPlaced'
    BY DEF PartIsPlaced, Part, Placed, Expected, NoCall
  <1>3. disk' \in [Names -> Files]
    BY Values DEF DownloadTypeOK
  <1>4. FilesAreWhole'
    <2> SUFFICES ASSUME NEW n \in Names, disk'[n].there
                 PROVE  IsWhole(disk'[n]) /\ Len(disk'[n].bytes) <= MaxBytes
        BY DEF FilesAreWhole, IsWhole
    <2>1. disk'[n] # Absent
      BY DEF Absent
    <2>2. PICK m \in Names : disk'[n] = disk[m]
      BY <2>1
    <2> QED
      BY <2>2 DEF FilesAreWhole
  <1> QED
    BY <1>1, <1>2, <1>3, <1>4 DEF DownloadTypeOK
================================================================================
