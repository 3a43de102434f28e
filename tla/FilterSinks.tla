------------------------------ MODULE FilterSinks ------------------------------
(***************************************************************************)
(* dup_filter_sink over the dist_sink it derives from (dup_filter_sink.h,  *)
(* dist_sink.h), with two sinks below: "keeper", which takes every level   *)
(* and stays, and "ring", a ringbuffer_sink (ringbuffer_sink.h) that is    *)
(* added, as often as one likes, and removed.  The mutex of the base sink  *)
(* makes every call atomic.  A message may be older than the one before    *)
(* it.  A sink below may throw: the rest of the call is not done, and the  *)
(* logger reports it.                                                      *)
(***************************************************************************)
EXTENDS CircularQ, FiniteSets

CONSTANTS Payloads,
          SkipMax,                        \* max_skip_duration_
          RingItems,                      \* n_items of the ring buffer
          LastTime, Delay, MaxLogged, MaxFaults, MaxChanges     \* bounds

VARIABLES now,
          sinks_,                \* the sinks below, in order
          ringLevel,             \* level_ of the ring
          q_,                    \* of the ring
          got,                   \* what each sink below was given, in order
          last_msg_time_, last_msg_payload_, skip_counter_,
          logged,                \* the payloads logged
          faults, changes        \* how often a sink threw, and the sinks were changed

vars == <<now, sinks_, ringLevel, q_, got, last_msg_time_, last_msg_payload_, skip_counter_,
          logged, faults, changes>>

Children == {"keeper", "ring"}
Info == 2
Err == 4
NoPayload == Unused               \* the empty text at the start

Init == /\ now = SkipMax + 1 /\ sinks_ \in {<<"keeper">>, <<"keeper", "ring">>} /\ ringLevel = Info
        /\ q_ = Create(RingItems) /\ got = [c \in Children |-> <<>>]
        /\ last_msg_time_ = 0 /\ last_msg_payload_ = NoPayload /\ skip_counter_ = 0
        /\ logged = <<>> /\ faults = 0 /\ changes = 0

Tick == /\ now < LastTime /\ now' = now + 1
        /\ UNCHANGED <<sinks_, ringLevel, q_, got, last_msg_time_, last_msg_payload_, skip_counter_,
                       logged, faults, changes>>

\* A message below: count 0 is a message, another the "Skipped .." of so many.
Message(p, level, t) == [payload |-> p, level |-> level, time |-> t, count |-> 0]
Skipped(n, level) == [payload |-> NoPayload, level |-> level, time |-> now, count |-> n]

should_log(c, m) == c = "keeper" \/ m.level >= ringLevel

\* What the sink c makes of m, in the state b of the sinks below.
Given(b, c, m) == [got |-> [b.got EXCEPT ![c] = Append(@, m)],
                   q |-> IF c = "ring" THEN PushBack(b.q, m) ELSE b.q]

\* dist_sink::sink_it_: the state of the sinks below after m, or after those before
\* the one at `broken`, which throws.
Delivered(below, m, broken) ==
    LET upTo[i \in 0..Len(sinks_)] ==
          IF i = 0 THEN below
          ELSE IF should_log(sinks_[i], m) THEN Given(upTo[i - 1], sinks_[i], m) ELSE upTo[i - 1]
    IN upTo[broken - 1]

filter_(p, t) == t - last_msg_time_ > SkipMax \/ p # last_msg_payload_

Below == [got |-> got, q |-> q_]

\* sink_it_ of a message that is a duplicate.
Skip(p, t) == /\ ~filter_(p, t)
              /\ skip_counter_' = skip_counter_ + 1
              /\ UNCHANGED <<got, q_, last_msg_time_, last_msg_payload_, faults>>

\* MUTANT of Forwarded: the skipped ones are not told.
ForwardedOnly(p, level, t) == Delivered(Below, Message(p, level, t), Len(sinks_) + 1)

\* The note about the duplicates, if there were any, and then the message.
Forwarded(p, level, t) ==
    LET noted == IF skip_counter_ > 0
                 THEN Delivered(Below, Skipped(skip_counter_, level), Len(sinks_) + 1) ELSE Below
    IN Delivered(noted, Message(p, level, t), Len(sinks_) + 1)

\* sink_it_ of another message.
Forward(p, level, t) ==
    /\ filter_(p, t)
    /\ got' = Forwarded(p, level, t).got /\ q_' = Forwarded(p, level, t).q
    /\ last_msg_time_' = t /\ last_msg_payload_' = p /\ skip_counter_' = 0
    /\ UNCHANGED faults

\* The same, when the sink at i throws, at the note or at the message: what the filter
\* remembers stays as it was.
ForwardThrows(p, level, t) ==
    /\ filter_(p, t) /\ faults < MaxFaults
    /\ \E i \in DOMAIN sinks_ :
         LET note == Skipped(skip_counter_, level)
             m == Message(p, level, t)
         IN \/ /\ skip_counter_ > 0 /\ should_log(sinks_[i], note)
               /\ LET b == Delivered(Below, note, i) IN got' = b.got /\ q_' = b.q
            \/ /\ should_log(sinks_[i], m)
               /\ LET b == Delivered(IF skip_counter_ > 0 THEN Delivered(Below, note, Len(sinks_) + 1)
                                      ELSE Below, m, i)
                  IN got' = b.got /\ q_' = b.q
    /\ faults' = faults + 1
    /\ UNCHANGED <<last_msg_time_, last_msg_payload_, skip_counter_>>

log(p, level, t) == /\ Len(logged) < MaxLogged
                    /\ logged' = Append(logged, p)
                    /\ Skip(p, t) \/ Forward(p, level, t) \/ ForwardThrows(p, level, t)
                    /\ UNCHANGED <<now, sinks_, ringLevel, changes>>

Changed == /\ changes < MaxChanges
           /\ changes' = changes + 1
           /\ UNCHANGED <<now, q_, got, last_msg_time_, last_msg_payload_, skip_counter_, logged, faults>>

add_sink == Changed /\ sinks_' = Append(sinks_, "ring") /\ UNCHANGED ringLevel

\* std::remove and erase: every place the sink has in the list.
Without(s, c) ==
    LET upTo[i \in 0..Len(s)] ==
          IF i = 0 THEN <<>> ELSE IF s[i] = c THEN upTo[i - 1] ELSE Append(upTo[i - 1], s[i])
    IN upTo[Len(s)]

remove_sink == Changed /\ sinks_' = Without(sinks_, "ring") /\ UNCHANGED ringLevel

set_sinks == Changed /\ sinks_' = <<"ring", "keeper">> /\ UNCHANGED ringLevel

set_level == Changed /\ ringLevel' = Err + Info - ringLevel /\ UNCHANGED sinks_

Next == \/ Tick \/ add_sink \/ remove_sink \/ set_sinks \/ set_level
        \/ \E p \in Payloads, level \in {Info, Err}, t \in {u \in 0..now : u >= now - Delay} : log(p, level, t)

Spec == Init /\ [][Next]_vars
------------------------------------------------------------------------------
TypeOK == /\ now \in 0..LastTime /\ sinks_ \in Seq(Children) /\ ringLevel \in {Info, Err}
          /\ q_.max = RingItems + 1 /\ q_.head \in 0..RingItems /\ q_.tail \in 0..RingItems
          /\ last_msg_payload_ \in Payloads \cup {NoPayload} /\ skip_counter_ \in 0..MaxLogged
          /\ faults \in 0..MaxFaults

Times(n, p) == [i \in 1..n |-> p]

\* The messages a sequence tells of: a note stands for so many of the message before it.
Told(s) ==
    LET upTo[n \in 0..Len(s)] ==
          IF n = 0 THEN <<>>
          ELSE upTo[n - 1] \o (IF s[n].count = 0 THEN <<s[n].payload>>
                               ELSE Times(s[n].count, s[n - 1].payload))
    IN upTo[Len(s)]

\* Two messages of a sequence between which there are only notes.
Successive(s, i, j) == /\ s[i].count = 0 /\ s[j].count = 0
                       /\ \A k \in (i + 1)..(j - 1) : s[k].count # 0

(***************************************************************************)
(* As long as no sink throws, what the sink that takes every level was     *)
(* given, with the duplicates the filter still keeps count of, is all that *)
(* was logged, in order; and it shows no message again within the          *)
(* duration (dup_filter_sink.h:17).  A note counts the messages left out   *)
(* (line 58), the first of them, which is shown, not among them.           *)
(***************************************************************************)
DuplicatesAreCounted ==
    faults = 0 =>
        /\ Told(got["keeper"]) \o Times(skip_counter_, last_msg_payload_) = logged
        /\ LET s == got["keeper"]
           IN \A j \in DOMAIN s : \A i \in 1..(j - 1) :
                 Successive(s, i, j) /\ s[i].payload = s[j].payload
                    => s[j].time - s[i].time > SkipMax

(***************************************************************************)
(* The example of dup_filter_sink.h:24-34: of one message three times in a *)
(* row, within the duration, and then another, the note says "Skipped 3    *)
(* duplicate messages..".                                                  *)
(***************************************************************************)
TheExampleSkipsThree ==
    \A p, d \in Payloads :
        p # d /\ logged = <<p, p, p, d>> /\ faults = 0 /\ Len(got["keeper"]) = 3
            => got["keeper"][2].count = 3

\* last_raw(lim)
last_raw(lim) ==
    LET available == Size(q_)
        n == IF lim > 0 /\ lim < available THEN lim ELSE available
    IN [i \in 1..n |-> ItemAt(q_, available - n + i - 1)]

LastOf(s, n) == SubSeq(s, Len(s) - (IF n < Len(s) THEN n ELSE Len(s)) + 1, Len(s))

(***************************************************************************)
(* last_raw gives the last messages the ring was given, oldest first: as   *)
(* many as asked for, as it has, or as it has room for.                    *)
(***************************************************************************)
RingShowsTheLast == \A lim \in 1..(RingItems + 1) :
                        /\ last_raw(lim) = LastOf(got["ring"], IF lim < RingItems THEN lim ELSE RingItems)
                        /\ last_raw(0) = LastOf(got["ring"], RingItems)
==============================================================================
