-------------------------------- MODULE Download --------------------------------
(***************************************************************************)
(* netboot.download: one file is streamed from a mirror to a .part file,   *)
(* resumed with a Range request when the connection drops, and moved in    *)
(* place when it is complete.                                              *)
(*                                                                         *)
(* A byte is recorded as the version of the file it was read from and its  *)
(* position there, so that a gap, a repeat and a mixture can be told       *)
(* apart; one Chunk is one byte.  The mirror is honest: a reply starts at  *)
(* the offset it names, a Range past the end is refused, and a reply cut   *)
(* short either breaks the connection or had its length announced.         *)
(***************************************************************************)
EXTENDS Naturals, Sequences

CONSTANTS Urls, Names,      \* what can be asked for, and where it is put
          LastVersion,      \* how often the mirror may publish a file
          Length,           \* Length[u][v]: bytes of the v-th file published at u
          MaxBytes, Attempts

Versions == 1..LastVersion
Byte     == [version: Versions, at: Nat]

ASSUME DownloadAssumption == /\ LastVersion \in Nat \ {0}
                             /\ MaxBytes \in Nat
                             /\ Attempts \in Nat \ {0}
                             /\ Urls # {} /\ Names # {}
                             /\ DOMAIN Length = Urls
                             /\ \A u \in Urls : /\ DOMAIN Length[u] = Versions
                                                /\ \A v \in Versions : Length[u][v] \in Nat

VARIABLES mirror,  \* the version each URL serves now
          disk,    \* the files in place, each with the URL it came from
          part,    \* the .part files; << >> when there is none
          call     \* the locals of the call under way, or its outcome

downloadVars == << mirror, disk, part, call >>

Outcomes == {"done", "failed", "cancelled"}
Calls    == [pc: {"idle", "open", "read"} \cup Outcomes, url: Urls, name: Names,
             attempt: 1..Attempts, size: Nat,
             version: Versions, sent: Nat, announced: BOOLEAN]   \* the reply being read
Files    == [there: BOOLEAN, url: Urls, bytes: Seq(Byte)]
Absent   == [there |-> FALSE, url |-> CHOOSE u \in Urls : TRUE, bytes |-> << >>]

DownloadTypeOK == /\ mirror \in [Urls -> Versions]
                  /\ disk \in [Names -> Files]
                  /\ part \in [Names -> Seq(Byte)]
                  /\ call \in Calls

NoCall   == [pc |-> "idle", url |-> CHOOSE u \in Urls : TRUE, name |-> CHOOSE n \in Names : TRUE,
             attempt |-> 1, size |-> 0, version |-> 1, sent |-> 0, announced |-> FALSE]

DownloadInit == /\ mirror = [u \in Urls |-> 1]
                /\ disk = [n \in Names |-> Absent]
                /\ part = [n \in Names |-> << >>]
                /\ call = NoCall

\* Entry: a .part left by a crash is dropped.
Fetch(u, n) == /\ call.pc = "idle"
               /\ call' = [NoCall EXCEPT !.pc = "open", !.url = u, !.name = n]
               /\ part' = [part EXCEPT ![n] = << >>]
               /\ UNCHANGED << mirror, disk >>

\* The finally: whatever the outcome, no .part stays.
Give(outcome) == /\ call' = [NoCall EXCEPT !.pc = outcome, !.name = call.name]
                 /\ part' = [part EXCEPT ![call.name] = << >>]

\* Faulty variants: one attempt too many; only the first is counted.
OneMore  == call.attempt > Attempts
SameTry  == call.attempt
LastTry  == call.attempt = Attempts
NextTry  == call.attempt + 1

\* Asked again for what is missing, except after the last attempt.
Again(size) == IF LastTry
               THEN Give("failed")
               ELSE /\ call' = [call EXCEPT !.pc = "open", !.attempt = NextTry, !.size = size]
                    /\ part' = part

\* A 200 starts at 0; a 206 where it was asked to, or at a wrong offset.
Served == Length[call.url][mirror[call.url]]
Starts == {0} \cup IF call.size = 0 THEN {} ELSE 1..(Served - 1)

\* How much of the .part is kept under an answer that starts at start.
KeepsAll(start) == call.size   \* faulty variant: the offset is not compared
Keeps(start)    == IF start = call.size THEN start ELSE 0

Answer(start, announced) ==
    /\ call.pc = "open"
    /\ IF Keeps(start) = 0 /\ start # 0
       THEN Again(0)
       ELSE /\ call' = [call EXCEPT !.pc = "read", !.size = Keeps(start), !.sent = start,
                                    !.version = mirror[call.url], !.announced = announced]
            /\ part' = [part EXCEPT ![call.name] = IF Keeps(start) = 0 THEN << >> ELSE @]
    /\ UNCHANGED << mirror, disk >>

NoAnswer == /\ call.pc = "open"
            /\ Again(call.size)
            /\ UNCHANGED << mirror, disk >>

\* An HTTP error is final.
Refuse == /\ call.pc = "open"
          /\ Give("failed")
          /\ UNCHANGED << mirror, disk >>

Expected == Length[call.url][call.version]

\* One chunk read: the stop flag, then the size cap, then the file.
Chunk(stopped) ==
    /\ call.pc = "read" /\ call.sent < Expected
    /\ IF stopped \/ call.size = MaxBytes
       THEN Give(IF stopped THEN "cancelled" ELSE "failed")
       ELSE /\ call' = [call EXCEPT !.size = @ + 1, !.sent = @ + 1]
            /\ part' = [part EXCEPT ![call.name] =
                           Append(@, [version |-> call.version, at |-> call.sent + 1])]
    /\ UNCHANGED << mirror, disk >>

\* The connection is reset or times out; a reply without a length may lose its end
\* after the last byte.
Interrupted == /\ call.pc = "read"
               /\ call.sent < Expected \/ ~call.announced
               /\ Again(call.size)
               /\ UNCHANGED << mirror, disk >>

\* The reply ends, too early when only the announced length can tell.
NeverShort == FALSE   \* faulty variant: the announced length is not compared
TooShort   == call.announced /\ call.size < Expected

EndOfReply == /\ call.pc = "read"
              /\ call.sent = Expected \/ call.announced
              /\ IF TooShort
                 THEN Again(call.size) /\ UNCHANGED disk
                 ELSE /\ disk' = [disk EXCEPT ![call.name] =
                            [there |-> TRUE, url |-> call.url, bytes |-> part[call.name]]]
                      /\ Give("done")
              /\ UNCHANGED mirror

\* The disk is full or the volume gone: an error download does not catch.
CannotWrite == /\ call.pc = "read"
               /\ Give("failed")
               /\ UNCHANGED << mirror, disk >>

DownloadStep(stopped) == \/ \E start \in Starts, a \in BOOLEAN : Answer(start, a)
                         \/ NoAnswer \/ Refuse
                         \/ Chunk(stopped) \/ Interrupted \/ EndOfReply \/ CannotWrite

\* The mirror publishes another file under the same address.
Publish(u) == /\ mirror[u] < LastVersion
              /\ mirror' = [mirror EXCEPT ![u] = @ + 1]
              /\ UNCHANGED << disk, part, call >>
--------------------------------------------------------------------------------
(* Properties. *)

\* As long as a version the mirror has published, every byte at its own place, and
\* the last one of that version: a file no publication interrupted is that version.
IsWhole(f) == \E v \in Versions :
    /\ Len(f.bytes) = Length[f.url][v]
    /\ \A i \in 1..Len(f.bytes) : f.bytes[i].at = i
    /\ f.bytes # << >> => f.bytes[Len(f.bytes)].version = v

\* Whatever dropped, was cut short, resumed elsewhere or was sent from the start
\* again, a file that download put in place (part.replace(dest)) is whole and
\* within the size cap.
FilesAreWhole == \A n \in Names : disk[n].there =>
                     IsWhole(disk[n]) /\ Len(disk[n].bytes) <= MaxBytes
================================================================================
