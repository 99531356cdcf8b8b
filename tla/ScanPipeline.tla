---------------------------- MODULE ScanPipeline ----------------------------
(***************************************************************************)
(* The way of a scan from the public card page to the scan_events table:   *)
(* the page spawns a publication and answers without waiting for it, the   *)
(* work queue CARDS_SCAN stores the message, and the worker's pull consumer*)
(* fetches messages in batches and handles them one after the other: one   *)
(* INSERT of its own transaction, then the acknowledgement.                *)
(*                                                                         *)
(* Nothing identifies a scan in the table, so every INSERT that commits    *)
(* adds a row that analytics counts.                                       *)
(***************************************************************************)
EXTENDS Integers, FiniteSets

CONSTANTS
  Scans,          \* page views of active cards
  NoScan,         \* the worker is between two messages
  FetchSize,      \* fetch_size (100 in the code)
  MaxAckPending,  \* max_ack_pending (200)
  MaxDeliver,     \* max_deliver (5)
  Faults          \* what may go wrong, a subset of FaultKinds

(***************************************************************************)
(* "publish": the publication fails, NATS is not configured, or the API    *)
(*            process ends before the spawned task has run;                *)
(* "io":      the INSERT fails, e.g. no partition holds the time;          *)
(* "lost":    the INSERT commits and its answer is lost;                   *)
(* "timeout": wait_for cancels the handler after 30 s;                     *)
(* "ack":     an ack or a nak does not reach the server, or raises;        *)
(* "slow":    ack_wait (60 s) ends for a message that waits in the batch;  *)
(* "crash":   the worker process dies with messages in hand;               *)
(* "closed":  the NATS connection is given up (nats-py stops reconnecting  *)
(*            after 60 attempts): every later call on it raises.           *)
(***************************************************************************)
FaultKinds ==
  {"publish", "io", "lost", "timeout", "ack", "slow", "crash", "closed"}

ASSUME ScanAssumption ==
  /\ IsFiniteSet(Scans)
  /\ NoScan \notin Scans
  /\ FetchSize \in Nat \ {0}
  /\ MaxAckPending \in Nat \ {0}
  /\ MaxDeliver \in Nat \ {0}
  /\ Faults \subseteq FaultKinds

VARIABLES
  task,        \* the spawned publish_scan of each page view
  msg,         \* where the scan's message is
  deliveries,  \* how often it was delivered
  rows,        \* scan_events rows with the scan
  loopAt,          \* what the consumer task does
  batch,       \* messages fetched and not yet done with
  cur,         \* the message being acknowledged
  failures,    \* history: deliveries that did not come to an acknowledgement
  mishaps      \* history: faults that struck between an INSERT and its ack

queue   == <<msg, deliveries>>
worker  == <<loopAt, batch, cur>>
history == <<failures, mishaps>>
scanVars    == <<task, queue, rows, worker, history>>

ScanTypeOK ==
  /\ task \in [Scans -> {"none", "spawned", "done"}]
  /\ msg \in [Scans -> {"none", "queued", "pending", "settled", "exhausted"}]
  /\ deliveries \in [Scans -> 0..MaxDeliver]
  /\ rows \in [Scans -> Nat]
  /\ loopAt \in {"loop", "ack", "nak", "dead", "down"}
  /\ batch \subseteq Scans
  /\ cur \in Scans \cup {NoScan}
  /\ failures \in [Scans -> Nat]
  /\ mishaps \in [Scans -> Nat]

ScanInit ==
  /\ task = [s \in Scans |-> "none"]
  /\ msg = [s \in Scans |-> "none"]
  /\ deliveries = [s \in Scans |-> 0]
  /\ rows = [s \in Scans |-> 0]
  /\ loopAt = "loop" /\ batch = {} /\ cur = NoScan
  /\ failures = [s \in Scans |-> 0]
  /\ mishaps = [s \in Scans |-> 0]

-----------------------------------------------------------------------------
(* The API                                                                 *)

(* public_card for an active card: the answer does not wait for the task.  *)
OpenCard(s) ==
  /\ task[s] = "none"
  /\ task' = [task EXCEPT ![s] = "spawned"]
  /\ UNCHANGED <<queue, rows, worker, history>>

(* publish_scan: an error is logged and swallowed, even when the stream    *)
(* stored the message.                                                     *)
PublishScan(s) ==
  /\ task[s] = "spawned"
  /\ task' = [task EXCEPT ![s] = "done"]
  /\ \/ msg' = [msg EXCEPT ![s] = "queued"]
     \/ "publish" \in Faults /\ UNCHANGED msg
  /\ UNCHANGED <<deliveries, rows, worker, history>>

-----------------------------------------------------------------------------
(* The durable consumer scan-worker                                        *)

(* A slip: a message that used up its deliveries stays pending.            *)
RequeuedOrStuck(s) == IF deliveries[s] < MaxDeliver THEN "queued" ELSE msg[s]

(* Where a message goes whose delivery ended without an ack; one whose     *)
(* ack_wait ended before has gone there already.                           *)
Requeued(s) ==
  IF msg[s] = "pending"
    THEN IF deliveries[s] < MaxDeliver THEN "queued" ELSE "exhausted"
    ELSE msg[s]

Pending == {s \in Scans : msg[s] = "pending"}

(* sub.fetch(fetch_size): some of the messages that are there, in any order*)
Fetch ==
  /\ loopAt = "loop" /\ batch = {}
  /\ \E S \in SUBSET {s \in Scans : msg[s] = "queued"} :
       /\ S # {}
       /\ Cardinality(S) <= FetchSize
       /\ Cardinality(Pending \cup S) <= MaxAckPending
       /\ batch' = S
       /\ msg' = [s \in Scans |-> IF s \in S THEN "pending" ELSE msg[s]]
       /\ deliveries' = [s \in Scans |-> IF s \in S THEN deliveries[s] + 1
                                                    ELSE deliveries[s]]
  /\ UNCHANGED <<task, rows, loopAt, cur, history>>

AckWaitExpires(s) ==
  /\ msg[s] = "pending"
  /\ s \in batch => "slow" \in Faults
  /\ msg' = [msg EXCEPT ![s] = Requeued(s)]
  /\ UNCHANGED <<task, deliveries, rows, worker, history>>

-----------------------------------------------------------------------------
(* The worker                                                              *)

(* What the handler comes to: rows committed, where _process_message goes, *)
(* and how many of the rows no acknowledgement will follow. ctx_wrap tries *)
(* a second time when the connection was lost, whether or not the first    *)
(* try committed.                                                          *)
Outcome(n, next, unacked) == [n |-> n, next |-> next, unacked |-> unacked]

(* A slip: a failed INSERT is logged and the message acknowledged.         *)
OutcomesSwallowed ==
  {Outcome(1, "ack", 0)}
  \cup (IF "io" \in Faults THEN {Outcome(0, "ack", 0)} ELSE {})

(* A slip: robots' scans are acknowledged without a row.                   *)
OutcomesWithoutBots == {Outcome(1, "ack", 0), Outcome(0, "ack", 0)}

(* A slip: the message is not acknowledged when the handler returns.       *)
OutcomesUnacked ==
  {Outcome(1, "nak", 0)}
  \cup (IF "io" \in Faults THEN {Outcome(0, "nak", 0)} ELSE {})

Outcomes ==
  {Outcome(1, "ack", 0)}
  \cup (IF "io" \in Faults THEN {Outcome(0, "nak", 0)} ELSE {})
  \cup (IF "timeout" \in Faults
          THEN {Outcome(0, "nak", 0), Outcome(1, "nak", 1)} ELSE {})
  \cup (IF "lost" \in Faults
          THEN {Outcome(2, "ack", 1), Outcome(1, "nak", 1), Outcome(2, "nak", 2)}
          ELSE {})

(* _handle_scan for a message of the batch, under wait_for.                *)
HandleScan(s) ==
  /\ loopAt = "loop" /\ s \in batch
  /\ \E o \in Outcomes :
       /\ rows' = [rows EXCEPT ![s] = @ + o.n]
       /\ loopAt' = o.next
       /\ mishaps' = [mishaps EXCEPT ![s] = @ + o.unacked]
  /\ cur' = s
  /\ UNCHANGED <<task, queue, batch, failures>>

Done == loopAt' = "loop" /\ batch' = batch \ {cur} /\ cur' = NoScan

(* msg.ack(): a message whose deliveries are used up may stay so. An ack   *)
(* that is lost leaves the message pending; one that raises is followed by *)
(* a nak.                                                                  *)
Ack ==
  /\ loopAt = "ack"
  /\ \/ /\ \/ msg' = [msg EXCEPT ![cur] = "settled"]
           \/ msg[cur] = "exhausted" /\ UNCHANGED msg
        /\ Done
        /\ UNCHANGED mishaps
     \/ /\ "ack" \in Faults
        /\ mishaps' = [mishaps EXCEPT ![cur] = @ + 1]
        /\ Done \/ (loopAt' = "nak" /\ UNCHANGED <<batch, cur>>)
        /\ UNCHANGED msg
  /\ UNCHANGED <<task, deliveries, rows, failures>>

(* msg.nak(delay=5.0), after an exception or a timeout.                    *)
Nak ==
  /\ loopAt = "nak"
  /\ \/ msg' = [msg EXCEPT ![cur] = Requeued(cur)]
     \/ "ack" \in Faults /\ UNCHANGED msg
  /\ failures' = [failures EXCEPT ![cur] = @ + 1]
  /\ Done
  /\ UNCHANGED <<task, deliveries, rows, mishaps>>

(* All messages in hand are lost, one of them perhaps after its INSERT.    *)
LosesBatch ==
  /\ batch' = {} /\ cur' = NoScan
  /\ failures' = [s \in Scans |-> IF s \in batch THEN failures[s] + 1
                                                 ELSE failures[s]]
  /\ mishaps' = [s \in Scans |-> IF loopAt = "ack" /\ s = cur THEN mishaps[s] + 1
                                                          ELSE mishaps[s]]

(* The process dies, or stop() has waited ten seconds for the consumer. A  *)
(* worker with nothing in hand loses nothing.                              *)
Crash ==
  /\ "crash" \in Faults
  /\ batch # {} \/ loopAt = "dead"
  /\ loopAt' = "down"
  /\ LosesBatch
  /\ UNCHANGED <<task, queue, rows>>

Restart ==
  /\ loopAt = "down"
  /\ loopAt' = "loop"
  /\ UNCHANGED <<task, queue, rows, batch, cur, history>>

(* Fetching raises and is retried for ever; an ack raises, the nak in its  *)
(* except clause too, and the consumer task ends. Either way the process   *)
(* lives on and handles nothing.                                           *)
ConnectionCloses ==
  /\ "closed" \in Faults
  /\ loopAt \notin {"dead", "down"}
  /\ loopAt' = "dead"
  /\ LosesBatch
  /\ UNCHANGED <<task, queue, rows>>

ScanNext ==
  \/ \E s \in Scans : OpenCard(s) \/ PublishScan(s) \/ AckWaitExpires(s) \/ HandleScan(s)
  \/ Fetch \/ Ack \/ Nak
  \/ Crash \/ Restart \/ ConnectionCloses

ScanSpec == ScanInit /\ [][ScanNext]_scanVars

(* The consumer loop runs, the server keeps its timers, a stopped worker   *)
(* is restarted; nothing obliges a visitor to open a card.                 *)
Fairness ==
  /\ \A s \in Scans : WF_scanVars(PublishScan(s)) /\ WF_scanVars(AckWaitExpires(s))
  /\ WF_scanVars(\E s \in Scans : HandleScan(s))
  /\ WF_scanVars(Fetch) /\ WF_scanVars(Ack) /\ WF_scanVars(Nak) /\ WF_scanVars(Restart)

FairSpec == ScanSpec /\ Fairness

=============================================================================
