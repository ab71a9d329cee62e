---------------------------- MODULE EventFanout ----------------------------
(***************************************************************************)
(* What sse-push promises the browsers, with no lock, goroutine or channel *)
(* in sight: every subscriber has a queue of at most Cap events.  An event *)
(* published on a subject is offered once to each subscriber that was      *)
(* there when it was published, before the next event of that subject; it  *)
(* joins the subscriber's queue, or is lost to that subscriber alone if    *)
(* the queue is full.  Nothing else is lost, repeated or put out of order  *)
(* within a subject.  Events of different subjects interleave freely, and  *)
(* differently for each subscriber.                                        *)
(***************************************************************************)
EXTENDS Naturals, Sequences

CONSTANTS Subscribers, Subjects, Cap

VARIABLES
    live,        \* the subscribers
    published,   \* how many events each subject has published
    pos,         \* pos[c][s]: the last event of s that c has been offered
    queue        \* what c has been given and has not taken

fanoutVars == <<live, published, pos, queue>>

Event == [subject : Subjects, n : Nat]

Nowhere == [s \in Subjects |-> 0]

Init ==
    /\ live = {}
    /\ published = Nowhere
    /\ pos = [c \in Subscribers |-> Nowhere]
    /\ queue = [c \in Subscribers |-> << >>]

Join(c) ==
    /\ c \notin live
    /\ live' = live \cup {c}
    /\ pos' = [pos EXCEPT ![c] = published]
    /\ queue' = [queue EXCEPT ![c] = << >>]
    /\ UNCHANGED published

Leave(c) ==
    /\ c \in live
    /\ live' = live \ {c}
    /\ pos' = [pos EXCEPT ![c] = Nowhere]
    /\ UNCHANGED <<published, queue>>

Publish(s) ==
    /\ \A c \in live : pos[c][s] = published[s]
    /\ published' = [published EXCEPT ![s] = @ + 1]
    /\ UNCHANGED <<live, pos, queue>>

Offer(c, s) ==
    /\ c \in live
    /\ pos[c][s] < published[s]
    /\ pos' = [pos EXCEPT ![c][s] = published[s]]
    /\ queue' = IF Len(queue[c]) < Cap
                THEN [queue EXCEPT ![c] = Append(@, [subject |-> s, n |-> published[s]])]
                ELSE queue
    /\ UNCHANGED <<live, published>>

Take(c) ==
    /\ c \in live
    /\ queue[c] # << >>
    /\ queue' = [queue EXCEPT ![c] = Tail(@)]
    /\ UNCHANGED <<live, published, pos>>

Next ==
    \/ \E c \in Subscribers : Join(c) \/ Leave(c) \/ Take(c)
    \/ \E s \in Subjects : Publish(s)
    \/ \E c \in Subscribers, s \in Subjects : Offer(c, s)

Spec == Init /\ [][Next]_fanoutVars
=============================================================================
