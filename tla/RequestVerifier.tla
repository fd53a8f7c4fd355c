-------------------------- MODULE RequestVerifier --------------------------
(***************************************************************************)
(* The RequestVerifier of one NodeHTTPServer (network/http_transport.py):  *)
(* every signed request passes verify before its handler runs.  Requests   *)
(* arrive in any order, any number of times, from clients whose clocks     *)
(* disagree with this one.                                                 *)
(*                                                                         *)
(* A nonce key is "node_id:nonce".  Whether the signature verifies is a    *)
(* bit of the request.  The clock is the wall clock, which may be set      *)
(* back: Drift is how far it may fall behind the highest time it showed.   *)
(***************************************************************************)
EXTENDS Integers, Sequences

CONSTANTS
    NonceKey,  \* nonce keys that clients use
    Skew,      \* MAX_CLOCK_SKEW_SECONDS
    Drift,     \* how far the wall clock may be set back
    MaxTime    \* bound: the last second

ASSUME WindowAssumption ==
    /\ Skew \in Nat \ {0}
    /\ Drift \in Nat
    /\ Drift < Skew
    /\ MaxTime \in Nat

Time == 0 .. MaxTime

VARIABLES
    now,       \* utc_now
    high,      \* history: the highest time the clock has shown
    order,     \* _nonce_order; `at` is history: when the entry was appended
    seen,      \* _seen_nonce_at, as the set of its items
    accepted,  \* history: what was accepted since the server started
    replayed   \* history: what was accepted more than once

vars == <<now, high, order, seen, accepted, replayed>>

Item == [key : NonceKey, timestamp : Time]
Request == [key : NonceKey, timestamp : Time, valid : BOOLEAN]

ItemOf(e) == [key |-> e.key, timestamp |-> e.timestamp]
Queued == {ItemOf(order[i]) : i \in DOMAIN order}

TypeOK ==
    /\ now \in Time
    /\ high \in Time
    /\ order \in Seq([key : NonceKey, timestamp : Time, at : Time])
    /\ seen \subseteq Item
    /\ accepted \subseteq Item
    /\ replayed \subseteq Item

Init ==
    /\ now \in Time
    /\ high = now
    /\ order = <<>>
    /\ seen = {}
    /\ accepted = {}
    /\ replayed = {}

-----------------------------------------------------------------------------
(* _prune.                                                                 *)

\* Mutant: nonces are kept for the skew, not for twice the skew.
CutoffAtSkew == now - Skew

Cutoff == now - 2 * Skew

\* Mutant: one entry is dropped at a time.
DropsOne(k) ==
    /\ k \in 0 .. Len(order)
    /\ k <= 1
    /\ \A i \in 1 .. k : order[i].timestamp <= Cutoff
    /\ (k = 0 /\ order # <<>>) => order[1].timestamp > Cutoff

\* The loop drops k entries: it stops at the first one that is not old
\* enough, whatever stands behind it.
Drops(k) ==
    /\ k \in 0 .. Len(order)
    /\ \A i \in 1 .. k : order[i].timestamp <= Cutoff
    /\ k < Len(order) => order[k + 1].timestamp > Cutoff

Kept(k) == SubSeq(order, k + 1, Len(order))
Remembered(k) == seen \ {ItemOf(order[i]) : i \in 1 .. k}

-----------------------------------------------------------------------------
(* verify.                                                                 *)

InWindow(r) ==
    /\ now - r.timestamp <= Skew
    /\ r.timestamp - now <= Skew

Fresh(r, items) == \A e \in items : e.key # r.key

\* Mutant: the nonce is remembered but not put into the queue.
AcceptUnqueued(r, k) ==
    /\ order' = Kept(k)
    /\ seen' = Remembered(k) \cup {ItemOf(r)}
    /\ accepted' = accepted \cup {ItemOf(r)}
    /\ replayed' = replayed \cup ({ItemOf(r)} \cap accepted)

Accept(r, k) ==
    /\ order' = Append(Kept(k), [key |-> r.key, timestamp |-> r.timestamp, at |-> now])
    /\ seen' = Remembered(k) \cup {ItemOf(r)}
    /\ accepted' = accepted \cup {ItemOf(r)}
    /\ replayed' = replayed \cup ({ItemOf(r)} \cap accepted)

\* A refused request has pruned all the same.
Refuse(k) ==
    /\ order' = Kept(k)
    /\ seen' = Remembered(k)
    /\ UNCHANGED <<accepted, replayed>>

verify(r) ==
    /\ \E k \in 0 .. Len(order) :
          /\ Drops(k)
          /\ IF InWindow(r) /\ Fresh(r, Remembered(k)) /\ r.valid
             THEN Accept(r, k) ELSE Refuse(k)
    /\ UNCHANGED <<now, high>>

\* A new server starts with an empty table.
Restart ==
    /\ order' = <<>>
    /\ seen' = {}
    /\ accepted' = {}
    /\ UNCHANGED <<now, high, replayed>>

\* The wall clock goes on, jumps ahead, or is set back within Drift.
ClockMoves(t) ==
    /\ t >= high - Drift
    /\ now' = t
    /\ high' = IF t > high THEN t ELSE high
    /\ UNCHANGED <<order, seen, accepted, replayed>>

Next ==
    \/ \E r \in Request : verify(r)
    \/ Restart
    \/ \E t \in Time : ClockMoves(t)

Spec == Init /\ [][Next]_vars

-----------------------------------------------------------------------------
(* Properties.                                                             *)

\* While a server runs, no request is accepted twice, although nonces are
\* forgotten and the clock may be set back (docs/control-plane-api.md: "The
\* server verifies timestamp skew, nonce replay, and Ed25519 signature").
NoReplay == replayed = {}

\* The queue holds exactly what the table remembers, so that every nonce
\* that is remembered will be pruned (_prune, the double bookkeeping of
\* _seen_nonce_at and _nonce_order).
QueueMatchesTable == seen = Queued

\* Entries wait behind a head with a later timestamp, but whatever is left
\* after a request was accepted less than three windows ago: the table does
\* not grow without bound (_prune: "to avoid unbounded memory growth").
HistoryBounded ==
    [][ order' # order =>
          \A i \in DOMAIN order' : order'[i].at > now - 3 * Skew - Drift ]_vars
=============================================================================
