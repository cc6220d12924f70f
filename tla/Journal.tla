------------------------------ MODULE Journal ------------------------------
(***************************************************************************)
(* The signed, hash-chained journals of admin mutations and of reads       *)
(* (pkg/adminlog, pkg/readlog), and the API handlers that write to them    *)
(* after they have served a request (recordAdmin, recordRead in            *)
(* pkg/api/server.go).                                                     *)
(*                                                                         *)
(* The two packages are one state machine: append a JSON line under        *)
(* Journal.mu, sync it, then advance the size and the previous hash in     *)
(* memory; on start, replay the file and refuse it at the first event that *)
(* does not verify or does not chain.                                      *)
(*                                                                         *)
(* A hash is the value it covers.  A text field (actor, user agent) is     *)
(* represented by its class: valid UTF-8, or other bytes, which            *)
(* encoding/json writes as U+FFFD although the hash covers the original.   *)
(***************************************************************************)
EXTENDS Integers, Sequences

CONSTANTS
    Threads,     \* concurrent handlers
    Texts,       \* classes of text fields, a subset of {"utf8", "bytes"}
    MaxEvents,   \* bound: requests
    MaxFaults,   \* bound: writes that fail
    MaxCrashes,  \* bound: crashes
    Tampering    \* BOOLEAN: a line of the file is edited once

VARIABLES
    file,      \* the lines of admin.log or journal.log
    up,        \* the journal is open
    size,      \* Journal.size
    prev,      \* Journal.prev
    pc,        \* per handler: its next step
    event,     \* per handler: the event it writes
    recorded,  \* history: requests whose append returned no error
    tampered,  \* history: a line was edited
    serial,    \* requests so far; stands for the time stamp
    faults, crashes

vars == <<file, up, size, prev, pc, event, recorded, tampered, serial,
          faults, crashes>>

ZeroHash == <<>>  \* 32 zero bytes
NoEvent == [id |-> 0, text |-> "utf8"]

\* Part of a line: not a JSON value, so it has no index.
Torn == [index |-> -1, prev |-> ZeroHash, id |-> 0, text |-> "torn", hash |-> ZeroHash]

-----------------------------------------------------------------------------
(* Events                                                                  *)

\* EventHash: SHA-256 over the canonical bytes
EventHash(index, prevHash, e) == <<index, prevHash, e>>

\* json.Marshal of a text field
Marshal(text) == IF text = "bytes" THEN "replaced" ELSE text

\* The line Action and Append write: the hash covers the event as it was given.
Line(e) ==
    [index |-> size, prev |-> prev, id |-> e.id, text |-> Marshal(e.text),
     hash |-> EventHash(size, prev, e)]

\* Event.Verify on a line that was read back
Verify(l) == l.hash = EventHash(l.index, l.prev, [id |-> l.id, text |-> l.text])

-----------------------------------------------------------------------------
Init ==
    /\ file = <<>>
    /\ up = TRUE
    /\ size = 0
    /\ prev = ZeroHash
    /\ pc = [t \in Threads |-> "idle"]
    /\ event = [t \in Threads |-> NoEvent]
    /\ recorded = {}
    /\ tampered = FALSE
    /\ serial = 0
    /\ faults = 0
    /\ crashes = 0

\* mutant: the previous hash of an event is not checked
ReplayAccepts_IndexOnly ==
    \A i \in DOMAIN file :
        /\ file[i] # Torn
        /\ file[i].index = i - 1
        /\ file[i].hash # ZeroHash

\* replay: the file decodes, every event verifies, indexes run from 0 without a
\* gap and every PrevHash is the EventHash before it.
ReplayAccepts ==
    \A i \in DOMAIN file :
        /\ file[i] # Torn
        /\ Verify(file[i])
        /\ file[i].index = i - 1
        /\ file[i].prev = IF i = 1 THEN ZeroHash ELSE file[i - 1].hash

Open ==
    /\ ~up
    /\ ReplayAccepts
    /\ up' = TRUE
    /\ size' = Len(file)
    /\ prev' = IF file = <<>> THEN ZeroHash ELSE file[Len(file)].hash
    /\ UNCHANGED <<file, pc, event, recorded, tampered, serial, faults,
                   crashes>>

\* The error aborts the start of steled.
OpenRefused ==
    /\ ~up
    /\ ~ReplayAccepts
    /\ UNCHANGED vars

-----------------------------------------------------------------------------
(* A handler: the request takes effect, then it is journaled               *)

MuFree == \A t \in Threads : pc[t] # "written"

\* The mutation or the read itself.
Serve(t, text) ==
    /\ up
    /\ pc[t] = "idle"
    /\ serial < MaxEvents
    /\ serial' = serial + 1
    /\ event' = [event EXCEPT ![t] = [id |-> serial', text |-> text]]
    /\ pc' = [pc EXCEPT ![t] = "served"]
    /\ UNCHANGED <<file, up, size, prev, recorded, tampered, faults, crashes>>

Return(t) ==
    /\ pc' = [pc EXCEPT ![t] = "idle"]
    /\ event' = [event EXCEPT ![t] = NoEvent]

\* Under Journal.mu: the line is written and synced ...
WriteLine(t) ==
    /\ up
    /\ pc[t] = "served"
    /\ MuFree
    /\ file' = Append(file, Line(event[t]))
    /\ pc' = [pc EXCEPT ![t] = "written"]
    /\ UNCHANGED <<up, size, prev, event, recorded, tampered, serial,
                   faults, crashes>>

\* ... or the file cannot be opened, the write is cut short, or the sync fails:
\* nothing in memory changes and the handler carries on.
WriteFails(t) ==
    /\ up
    /\ pc[t] = "served"
    /\ MuFree
    /\ faults < MaxFaults
    /\ faults' = faults + 1
    /\ file' \in {file, Append(file, Torn), Append(file, Line(event[t]))}
    /\ Return(t)
    /\ UNCHANGED <<up, size, prev, recorded, tampered, serial, crashes>>

\* ... then size and prev advance and Journal.mu is released.
Advance(t) ==
    /\ pc[t] = "written"
    /\ size' = size + 1
    /\ prev' = file[Len(file)].hash
    /\ recorded' = recorded \cup {event[t].id}
    /\ Return(t)
    /\ UNCHANGED <<file, up, tampered, serial, faults, crashes>>

\* Range reads the file and changes nothing.
Range ==
    /\ up
    /\ UNCHANGED vars

-----------------------------------------------------------------------------
Crash ==
    /\ up
    /\ crashes < MaxCrashes
    /\ crashes' = crashes + 1
    /\ up' = FALSE
    /\ size' = 0
    /\ prev' = ZeroHash
    /\ pc' = [t \in Threads |-> "idle"]
    /\ event' = [t \in Threads |-> NoEvent]
    /\ UNCHANGED <<file, recorded, tampered, serial, faults>>

\* Someone edits a line of a good file, or removes one that is not the last.
Tamper(i) ==
    /\ Tampering
    /\ ~up
    /\ ReplayAccepts
    /\ ~tampered
    /\ tampered' = TRUE
    /\ \/ file' = [file EXCEPT ![i].id = MaxEvents + 1]
       \/ /\ i < Len(file)
          /\ file' = SubSeq(file, 1, i - 1) \o SubSeq(file, i + 1, Len(file))
    /\ UNCHANGED <<up, size, prev, pc, event, recorded, serial, faults,
                   crashes>>

Next ==
    \/ Open
    \/ OpenRefused
    \/ \E t \in Threads :
         \/ \E text \in Texts : Serve(t, text)
         \/ WriteLine(t)
         \/ WriteFails(t)
         \/ Advance(t)
    \/ Range
    \/ Crash
    \/ \E i \in DOMAIN file : Tamper(i)

Spec == Init /\ [][Next]_vars

-----------------------------------------------------------------------------
(* Properties                                                              *)

Ids == 0 .. (MaxEvents + 1)

\* Every variable has its type, and the size in memory counts the lines but for
\* one that is being written.
TypeOK ==
    /\ \A i \in DOMAIN file :
         file[i] # Torn => file[i].index \in Nat /\ file[i].id \in Ids
    /\ up \in BOOLEAN /\ tampered \in BOOLEAN
    /\ size \in 0 .. Len(file)
    /\ pc \in [Threads -> {"idle", "served", "written"}]
    /\ event \in [Threads -> [id: Ids, text: {"utf8", "bytes"}]]
    /\ recorded \subseteq Ids
    /\ serial \in Nat /\ faults \in Nat /\ crashes \in Nat

UntamperedReplays ==
    ~tampered /\ faults = 0 /\ (\A i \in DOMAIN file : file[i].text = "utf8")
        => ReplayAccepts

TamperedRefused == tampered => ~up

RecordedOnce ==
    ~tampered =>
        \A id \in recorded :
            \E i \in DOMAIN file :
                {j \in DOMAIN file : file[j] # Torn /\ file[j].id = id} = {i}

\* The journal that opens is the journal that was written.  Two handlers at
\* once, or a crash at any point, leave a file that the next start accepts, as
\* long as no write failed and every text is UTF-8; a file with an edited or
\* missing line is refused; and an event whose append returned no error is in
\* the file once, whatever failed writes left between the lines: "Any chain
\* break or invalid signature aborts startup so the operator cannot serve from
\* a tampered read log" (pkg/readlog/readlog.go:247-248).
JournalIsSound == UntamperedReplays /\ TamperedRefused /\ RecordedOnce

=============================================================================
