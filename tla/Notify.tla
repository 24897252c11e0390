------------------------------- MODULE Notify -------------------------------
(***************************************************************************)
(* internal/notify: Emit hands an event to the fanout of its target, which *)
(* goes through the subscriptions in order, and each delivery is a webhook *)
(* that retries what is worth retrying.  Emitters are the runs that send   *)
(* events; they share the fanout and its dedup map.                        *)
(***************************************************************************)
EXTENDS Clock, Sequences

CONSTANTS
    Emitters, Targets, Events,
    Subs,      \* the subscriptions, a sequence of [events, dedup]
    attempts,  \* posts of one delivery (defaultAttempts)
    Never      \* no event, no time

ASSUME NotifyAssumption ==
    /\ Subs \in Seq([events : SUBSET Events, dedup : Nat])
    /\ attempts \in Nat \ {0} /\ Never \notin Nat \cup Events

VARIABLES
    sent,      \* when a delivery was last let through
    note,      \* where each emitter is in Notify
    hiccups    \* answers other than success that are still to come

notifyVars == <<sent, note, hiccups>>

Keys == [sub : DOMAIN Subs, target : Targets, event : Events]

Silent == [pc |-> "idle", event |-> Never, target |-> Never, sub |-> 1, at |-> 0,
           answers |-> <<>>, served |-> {}]

NotifyInit(h) ==
    /\ sent = [k \in Keys |-> Never]
    /\ note = [e \in Emitters |-> Silent]
    /\ hiccups = h

\* The subscriptions that asked for an event.
wants(event) == {i \in DOMAIN Subs : event \in Subs[i].events}

\* Emit detaches the context, so nothing but the answers ends a delivery.
Emit(e, event, target) ==
    note' = [note EXCEPT ![e] = [Silent EXCEPT !.pc = "next", !.event = event, !.target = target]]

Key(e) == [sub |-> note[e].sub, target |-> note[e].target, event |-> note[e].event]

\* The next subscription that asked for the event.  The clock is read before
\* the mutex of the dedup map is taken.
Fanout(e) ==
    /\ note[e].pc = "next"
    /\ LET this == note[e] IN
        note' = [note EXCEPT ![e] =
            IF this.sub > Len(Subs) THEN [this EXCEPT !.pc = "idle"]
            ELSE IF this.sub \notin wants(this.event) THEN [this EXCEPT !.sub = @ + 1]
            ELSE [this EXCEPT !.pc = "dedup", !.at = now, !.served = @ \cup {this.sub}]]
    /\ UNCHANGED <<sent, hiccups>>

\* Mutant: only a repeat in the same instant is one.
Repeats(k, at) == Subs[k.sub].dedup > 0 /\ sent[k] # Never /\ at = sent[k]

\* Inside the window of a delivery that was let through.
Recent(k, at) == sent[k] # Never /\ at < sent[k] + Subs[k.sub].dedup

\* A delivery that is let through is recorded before it is tried.
suppress(e) ==
    /\ note[e].pc = "dedup"
    /\ IF Recent(Key(e), note[e].at)
       THEN note' = [note EXCEPT ![e].pc = "next", ![e].sub = @ + 1] /\ UNCHANGED sent
       ELSE /\ note' = [note EXCEPT ![e].pc = "post", ![e].answers = <<>>]
            /\ sent' = IF Subs[note[e].sub].dedup > 0 THEN [sent EXCEPT ![Key(e)] = note[e].at] ELSE sent
    /\ UNCHANGED hiccups

\* No answer, 429 and 5xx are worth another attempt; any other refusal is not.
temporary(answer) == answer = "later"

\* Mutant: the first delivery that fails ends the fanout.
FirstFailureEnds(e, answer) ==
    IF answer = "ok" THEN [note[e] EXCEPT !.pc = "next", !.sub = @ + 1] ELSE [note[e] EXCEPT !.pc = "idle"]

\* Whatever came of a delivery, the next subscription has its turn.
AfterDelivery(e, answer) == [note[e] EXCEPT !.pc = "next", !.sub = @ + 1]

\* One attempt.
post(e) ==
    /\ note[e].pc = "post"
    /\ \E answer \in {"ok", "later", "refused"} :
        /\ IF answer = "ok" THEN UNCHANGED hiccups ELSE hiccups > 0 /\ hiccups' = hiccups - 1
        /\ LET answers == Append(note[e].answers, answer) IN
            note' = [note EXCEPT ![e] =
                [(IF temporary(answer) /\ Len(answers) < attempts THEN note[e] ELSE AfterDelivery(e, answer))
                    EXCEPT !.answers = answers]]
    /\ UNCHANGED sent

Deliver(e) == Fanout(e) \/ suppress(e) \/ post(e)

-----------------------------------------------------------------------------

\* Deliveries of one event of one target to one subscription are its window
\* apart, whichever runs they come from (notify.go, suppress).
WindowKept ==
    [][\A k \in Keys : sent'[k] # sent[k] =>
            sent[k] = Never \/ sent'[k] >= sent[k] + Subs[k.sub].dedup]_<<now, notifyVars>>

\* When Notify returns, every subscription that asked for the event had its
\* delivery or is inside its window, so that an endpoint that fails does not
\* cost the others theirs; and one delivery posts at most its attempts, never
\* after an answer that settled it (notify.go, Notify; webhook.go, Notify).
DeliveriesSettle ==
    \A e \in Emitters :
        /\ note[e].pc = "idle" /\ note[e].event # Never => note[e].served = wants(note[e].event)
        /\ Len(note[e].answers) <= attempts
        /\ \A i \in 1..(Len(note[e].answers) - 1) : note[e].answers[i] = "later"
=============================================================================
