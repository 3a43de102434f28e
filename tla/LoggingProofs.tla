---------------------------- MODULE LoggingProofs ----------------------------
(***************************************************************************)
(* The synchronous parts of spdlog as Logging runs them, for any instance: *)
(* the registry and its loggers agree, rotated files keep the latest       *)
(* messages and daily ones the latest days, filtered lines are accounted   *)
(* for, and every connection of a TCP sink carries whole messages. A       *)
(* component's part of the inductive invariant is conditional on its being *)
(* the one that runs. The parts of the file and the filtering sinks are in *)
(* SinkProofs.                                                             *)
(***************************************************************************)
EXTENDS SinkProofs

------------------------------------------------------------------------------
(***************************************************************************)
(* The registry, for any loggers, names, settings, environments and calls. *)
(* A logger that is made carries its settings and a sound backtrace; the   *)
(* map holds loggers that are made; those it gives its settings to are in  *)
(* the map, and the formatter of the registry is in their sinks, whoever   *)
(* else has those.                                                         *)
(***************************************************************************)

TraceMessages == [level : Reg!trace..Reg!off, number : Nat]

\* The settings and the ring of a logger.
Object(o) ==
    /\ o = [name |-> o.name, level |-> o.level, flush |-> o.flush, sink |-> o.sink,
            handler |-> o.handler, tracing |-> o.tracing, ring |-> o.ring]
    /\ o.name \in Reg!Names /\ o.level \in Reg!trace..Reg!off /\ o.flush \in Reg!trace..Reg!off
    /\ o.sink \in rg_Loggers /\ o.handler \in rg_Handlers /\ o.tracing \in BOOLEAN
    /\ Ring(o.ring, TraceMessages)

\* An object and the messages since its backtrace was enabled or dumped.
LoggerSound(o, s) ==
    /\ Object(o) /\ s \in Seq(TraceMessages)
    /\ o.tracing => o.ring.max > 0 /\ Contents(o.ring) = Reg!LastOf(s, o.ring.max - 1)

Settings ==
    /\ DOMAIN rg_log_levels_ \subseteq STRING
    /\ \A n \in DOMAIN rg_log_levels_ : rg_log_levels_[n] \in Reg!trace..Reg!off
    /\ rg_global_log_level_ \in Reg!trace..Reg!off /\ rg_flush_level_ \in Reg!trace..Reg!off
    /\ rg_formatter_ \in rg_Formatters /\ rg_err_handler_ \in rg_Handlers
    /\ rg_automatic_registration_ \in BOOLEAN /\ rg_backtrace_n_messages_ \in rg_TraceSizes \cup {0}
    /\ rg_flusher \in BOOLEAN

Held ==
    /\ rg_made \subseteq rg_Loggers /\ rg_Default \in rg_made /\ rg_default_logger_ \in rg_made \cup {NoLogger}
    /\ rg_loggers_ \in [Reg!Names -> rg_made \cup {NoLogger}]
    /\ rg_inTouch \subseteq Reg!Registered /\ rg_calls \in 0..rg_MaxCalls

Objects ==
    /\ rg_obj = [l \in rg_Loggers |-> rg_obj[l]] /\ rg_since = [l \in rg_Loggers |-> rg_since[l]]
    /\ \A l \in rg_Loggers : LoggerSound(rg_obj[l], rg_since[l])

\* What is still to be made.
Fresh == \A l \in rg_Loggers \ rg_made : rg_obj[l] = Reg!NewLogger(l) /\ rg_since[l] = <<>>

Named == ~rg_renamed => /\ \A l \in rg_Loggers : rg_obj[l].name = rg_Name[l]
                        /\ rg_default_logger_ # NoLogger => rg_loggers_[rg_Name[rg_default_logger_]] = rg_default_logger_
                        /\ \A n \in Reg!Names : rg_loggers_[n] # NoLogger => rg_Name[rg_loggers_[n]] = n

\* The room of a backtrace, as enable_backtrace was told it.
Room(o) == IF o.tracing THEN o.ring.max - 1 ELSE 0

\* The settings of the registry in a logger, beside the formatter.
Reached(o) == /\ o.handler = rg_err_handler_ /\ o.flush = rg_flush_level_
              /\ Room(o) = rg_backtrace_n_messages_

Given == \A l \in rg_inTouch : Reached(rg_obj[l])

LoggersInv == Held /\ Settings /\ Objects /\ Fresh /\ Named /\ Given

\* And their sinks, which clones share.
Formatted == /\ rg_formatters \in [rg_Loggers -> rg_Formatters]
             /\ \A l \in rg_inTouch : rg_formatters[rg_obj[l].sink] = rg_formatter_

Unflushed == rg_unflushed \subseteq Reg!SinksOf(rg_made)

RegInv == LoggersInv /\ Formatted /\ Unflushed
------------------------------------------------------------------------------
(* What the operations do to one logger.                                   *)

LEMMA CreatedRing ==
    ASSUME NEW n \in Nat
    PROVE  /\ Ring(Create(n), TraceMessages) /\ Create(n).max = n + 1
           /\ Contents(Create(n)) = <<>>
<1>1. Create(n) = [max |-> n + 1, head |-> 0, tail |-> 0, over |-> 0, v |-> [i \in 0..n |-> Unused]]
  BY DEF Create
<1>2. Ring(Create(n), TraceMessages) /\ Create(n).max = n + 1 /\ Size(Create(n)) = 0
  BY <1>1 DEF Ring, Size
<1>3. QED
  BY <1>2 DEF Contents

\* The registry's rings are those of circular_q.h.
LEMMA RegistryRing == /\ Reg!Disabled = Disabled
                      /\ \A n : Reg!Create(n) = Create(n)
                      /\ \A cq, x : Reg!PushBack(cq, x) = PushBack(cq, x)
                      /\ \A cq : Reg!Contents(cq) = Contents(cq)
<1>1. /\ Reg!Disabled = Disabled
      /\ \A n : Reg!Create(n) = Create(n)
  BY DEF Reg!Disabled, Disabled, Reg!Create, Create
<1>2. \A cq, i : Reg!After(cq, i) = After(cq, i) /\ Reg!ItemAt(cq, i) = ItemAt(cq, i)
  BY DEF Reg!After, After, Reg!ItemAt, ItemAt
<1>3. ASSUME NEW cq, NEW x PROVE Reg!PushBack(cq, x) = PushBack(cq, x)
  BY DEF Reg!PushBack, PushBack, Reg!After, After
<1>4. ASSUME NEW cq PROVE Reg!Contents(cq) = Contents(cq)
  BY DEF Reg!Contents, Contents, Reg!Size, Size, Reg!ItemAt, ItemAt
<1>5. QED
  BY <1>1, <1>3, <1>4

LEMMA TracedIsSound ==
    ASSUME NEW o, Object(o), NEW n \in Nat
    PROVE  LoggerSound(Reg!Traced(o, n), <<>>) /\ Reg!Traced(o, n).tracing /\ Reg!Traced(o, n).ring.max = n + 1
<1> DEFINE t == Reg!Traced(o, n)
<1>1. t = [o EXCEPT !.tracing = TRUE, !.ring = Create(n)]
  BY RegistryRing DEF Reg!Traced
<1>2. Object(t) /\ t.tracing = TRUE /\ t.ring = Create(n)
  BY <1>1, CreatedRing DEF Object
<1> HIDE DEF t
<1>3. <<>> \in Seq(TraceMessages) /\ Reg!LastOf(<<>>, n) = <<>>
  BY LastOfNone
<1>4. t.ring.max = n + 1 /\ n + 1 > 0 /\ (n + 1) - 1 = n /\ Contents(t.ring) = <<>>
  BY <1>2, CreatedRing
<1>5. QED
  BY <1>2, <1>3, <1>4 DEF LoggerSound, t

\* The other settings leave the backtrace alone.
LEMMA SettingIsSound ==
    ASSUME NEW o, NEW s, LoggerSound(o, s), NEW r, Object(r), r.ring = o.ring,
           r.tracing => o.tracing
    PROVE  LoggerSound(r, s)
BY DEF LoggerSound

LEMMA PushedIsSound ==
    ASSUME NEW o, NEW s, LoggerSound(o, s), o.tracing, NEW x \in TraceMessages
    PROVE  LET r == [o EXCEPT !.ring = PushBack(@, x)] IN
             LoggerSound(r, Append(s, x)) /\ r.ring.max = o.ring.max
<1> DEFINE r == [o EXCEPT !.ring = PushBack(@, x)]
<1> PICK cq : cq = o.ring
  OBVIOUS
<1>1. Object(o) /\ s \in Seq(TraceMessages) /\ Ring(cq, TraceMessages) /\ cq.max \in Nat /\ cq.max > 0 /\ cq.max # 0
      /\ Contents(cq) = Reg!LastOf(s, cq.max - 1)
  BY DEF LoggerSound, Object, Ring, Disabled
<1>2. Ring(PushBack(cq, x), TraceMessages) /\ PushBack(cq, x).max = cq.max
  BY <1>1, PushKeeps
<1>3. Object(r) /\ r.ring = PushBack(cq, x) /\ r.tracing = o.tracing
  <2>1. r = [o EXCEPT !.ring = PushBack(cq, x)]
    BY DEF PushBack
  <2> HIDE DEF r
  <2>2. QED
    BY <2>1, <1>1, <1>2 DEF Object
<1>4. Append(s, x) \in Seq(TraceMessages)
  BY <1>1
<1>5. Contents(PushBack(cq, x)) = Reg!LastOf(Append(s, x), cq.max - 1)
  <2>1. CASE cq.max = 1
    <3>1. Reg!LastOf(Append(s, x), 0) = <<>>
      BY <1>4, LastOfNothing
    <3>2. Size(PushBack(cq, x)) \in 0..0
      BY <2>1, <1>2, SizeOfRing
    <3>3. Contents(PushBack(cq, x)) = <<>>
      BY <3>2 DEF Contents
    <3>4. Reg!LastOf(Append(s, x), 0) = <<>> /\ cq.max - 1 = 0
      BY <3>1, <2>1
    <3>5. QED
      BY <3>3, <3>4
  <2>2. CASE cq.max > 1
    <3>1. cq.max - 1 \in Nat \ {0}
      BY <2>2, <1>1
    <3>2. Contents(PushBack(cq, x)) = Append(IF Full(cq) THEN Tail(Contents(cq)) ELSE Contents(cq), x)
      BY <1>1, <2>2, PushAppends
    <3>3. Full(cq) <=> Len(Reg!LastOf(s, cq.max - 1)) = cq.max - 1
      <4>1. (Full(cq) <=> Size(cq) = cq.max - 1) /\ Len(Contents(cq)) = Size(cq)
        BY <1>1, SizeOfRing, ContentsIsSequence, Zenon
      <4>2. QED
        BY <4>1, <1>1
    <3>4. Len(Reg!LastOf(s, cq.max - 1)) = IF Len(s) > cq.max - 1 THEN cq.max - 1 ELSE Len(s)
      BY <3>1, <1>1, LastOfIs
    <3>5. Full(cq) <=> Len(s) >= cq.max - 1
      BY <3>1, <3>3, <3>4, <1>1
    <3>6. PICK n \in Nat \ {0} : n = cq.max - 1
      BY <3>1
    <3>7. Reg!LastOf(Append(s, x), n)
          = Append(IF Len(s) >= n THEN Tail(Reg!LastOf(s, n)) ELSE Reg!LastOf(s, n), x)
      BY <1>1, LastOfAppend, Zenon
    <3>8. (Full(cq) <=> Len(s) >= n) /\ Contents(cq) = Reg!LastOf(s, n)
      BY <3>5, <3>6, <1>1, Zenon
    <3>9. QED
      BY <3>2, <3>6, <3>7, <3>8, Zenon
  <2>3. QED
    BY <2>1, <2>2, <1>1
<1>6. QED
  BY <1>1, <1>2, <1>3, <1>4, <1>5 DEF LoggerSound

LEMMA EmptiedIsSound ==
    ASSUME NEW o, NEW s, LoggerSound(o, s), o.tracing
    PROVE  LET r == [o EXCEPT !.ring = Reg!Emptied(@)] IN
             LoggerSound(r, <<>>) /\ r.ring.max = o.ring.max
<1> DEFINE r == [o EXCEPT !.ring = Reg!Emptied(@)]
<1> PICK cq : cq = o.ring
  OBVIOUS
<1>1. Object(o) /\ Ring(cq, TraceMessages) /\ cq.max \in Nat \ {0} /\ cq.max # 0
  BY DEF LoggerSound, Object, Ring, Disabled
<1>2. Reg!Emptied(cq) = [max |-> cq.max, head |-> cq.tail, tail |-> cq.tail, over |-> cq.over, v |-> cq.v]
  BY <1>1, Fields DEF Reg!Emptied
<1>3. Ring(Reg!Emptied(cq), TraceMessages) /\ Reg!Emptied(cq).max = cq.max /\ Size(Reg!Emptied(cq)) = 0
  <2>1. /\ cq.max \in Nat \ {0} /\ cq.over \in Nat /\ cq.tail \in 0..(cq.max - 1)
        /\ cq.v \in [0..(cq.max - 1) -> TraceMessages \cup {Unused}]
    BY <1>1, Fields, Zenon
  <2>2. QED
    BY <1>2, <2>1 DEF Ring, Size
<1>4. Object(r) /\ r.ring = Reg!Emptied(cq) /\ r.tracing = o.tracing
  <2>1. r = [o EXCEPT !.ring = Reg!Emptied(cq)]
    BY DEF Reg!Emptied
  <2> HIDE DEF r
  <2>2. QED
    BY <2>1, <1>1, <1>3 DEF Object
<1>5. Contents(Reg!Emptied(cq)) = <<>>
  BY <1>3 DEF Contents
<1>6. <<>> \in Seq(TraceMessages) /\ Reg!LastOf(<<>>, cq.max - 1) = <<>>
  <2>1. cq.max - 1 \in Nat
    BY <1>1
  <2>2. QED
    BY <2>1, LastOfNone
<1>7. QED
  BY <1>1, <1>3, <1>4, <1>5, <1>6 DEF LoggerSound

LEMMA UntracedIsSound ==
    ASSUME NEW o, NEW s, LoggerSound(o, s)
    PROVE  LoggerSound(Reg!Untraced(o), s) /\ Reg!Untraced(o).tracing = FALSE
<1> PICK r : r = Reg!Untraced(o)
  OBVIOUS
<1>1. r = [o EXCEPT !.tracing = FALSE] /\ Object(o)
  BY DEF Reg!Untraced, LoggerSound
<1>2. Object(r) /\ r.tracing = FALSE /\ r.ring = o.ring
  BY <1>1 DEF Object
<1>3. QED
  BY <1>2 DEF LoggerSound

\* One setting of a logger that is set by itself.
LEMMA SetIsSound ==
    ASSUME NEW o, NEW s, LoggerSound(o, s)
    PROVE  /\ \A v \in Reg!trace..Reg!off : LoggerSound([o EXCEPT !.level = v], s) /\ LoggerSound([o EXCEPT !.flush = v], s)
           /\ \A v \in rg_Handlers : LoggerSound([o EXCEPT !.handler = v], s)
           /\ \A v \in Reg!Names : LoggerSound([o EXCEPT !.name = v], s)
<1>1. Object(o)
  BY DEF LoggerSound
<1>2. ASSUME NEW v \in Reg!trace..Reg!off PROVE LoggerSound([o EXCEPT !.level = v], s)
  <2> PICK r : r = [o EXCEPT !.level = v]
    OBVIOUS
  <2>1. Object(r) /\ r.tracing = o.tracing /\ r.ring = o.ring
    BY <1>1 DEF Object
  <2>2. QED
    BY <2>1 DEF LoggerSound
<1>3. ASSUME NEW v \in Reg!trace..Reg!off PROVE LoggerSound([o EXCEPT !.flush = v], s)
  <2> PICK r : r = [o EXCEPT !.flush = v]
    OBVIOUS
  <2>1. Object(r) /\ r.tracing = o.tracing /\ r.ring = o.ring
    BY <1>1 DEF Object
  <2>2. QED
    BY <2>1 DEF LoggerSound
<1>5. ASSUME NEW v \in rg_Handlers PROVE LoggerSound([o EXCEPT !.handler = v], s)
  <2> PICK r : r = [o EXCEPT !.handler = v]
    OBVIOUS
  <2>1. Object(r) /\ r.tracing = o.tracing /\ r.ring = o.ring
    BY <1>1 DEF Object
  <2>2. QED
    BY <2>1 DEF LoggerSound
<1>6. ASSUME NEW v \in Reg!Names PROVE LoggerSound([o EXCEPT !.name = v], s)
  <2> PICK r : r = [o EXCEPT !.name = v]
    OBVIOUS
  <2>1. Object(r) /\ r.tracing = o.tracing /\ r.ring = o.ring
    BY <1>1 DEF Object
  <2>2. QED
    BY <2>1 DEF LoggerSound
<1>7. QED
  BY <1>2, <1>3, <1>5, <1>6

LEMMA InitializedIsSound ==
    ASSUME Settings, rg_TraceSizes \subseteq Nat, NEW o, NEW s, LoggerSound(o, s)
    PROVE  LET r == Reg!Initialized(o) IN
             /\ LoggerSound(r, IF rg_backtrace_n_messages_ > 0 THEN <<>> ELSE s)
             /\ r.name = o.name /\ r.sink = o.sink /\ r.flush = rg_flush_level_
             /\ r.handler = IF rg_err_handler_ # rg_NoHandler THEN rg_err_handler_ ELSE o.handler
             /\ o.tracing = FALSE => Room(r) = rg_backtrace_n_messages_
<1> DEFINE level == IF o.name \in DOMAIN rg_log_levels_ THEN rg_log_levels_[o.name] ELSE rg_global_log_level_
           handler == IF rg_err_handler_ # rg_NoHandler THEN rg_err_handler_ ELSE o.handler
<1>1. Object(o) /\ level \in Reg!trace..Reg!off /\ handler \in rg_Handlers
      /\ rg_flush_level_ \in Reg!trace..Reg!off /\ rg_backtrace_n_messages_ \in Nat
  BY DEF LoggerSound, Object, Settings
<1> DEFINE set == [o EXCEPT !.handler = handler, !.level = level, !.flush = rg_flush_level_]
<1>2. Reg!Initialized(o) = IF rg_backtrace_n_messages_ > 0 THEN Reg!Traced(set, rg_backtrace_n_messages_) ELSE set
  BY DEF Reg!Initialized
<1> HIDE DEF level, handler
<1>s. set = [name |-> o.name, level |-> level, flush |-> rg_flush_level_, sink |-> o.sink,
             handler |-> handler, tracing |-> o.tracing, ring |-> o.ring]
  <2> PICK o2 : o2 = [o EXCEPT !.handler = handler]
    OBVIOUS
  <2> PICK o3 : o3 = [o2 EXCEPT !.level = level]
    OBVIOUS
  <2>1. set = [o3 EXCEPT !.flush = rg_flush_level_]
    OBVIOUS
  <2> HIDE DEF set
  <2>3. o2 = [name |-> o.name, level |-> o.level, flush |-> o.flush, sink |-> o.sink,
              handler |-> handler, tracing |-> o.tracing, ring |-> o.ring]
    BY <1>1 DEF Object
  <2>4. o3 = [name |-> o.name, level |-> level, flush |-> o.flush, sink |-> o.sink,
              handler |-> handler, tracing |-> o.tracing, ring |-> o.ring]
    BY <2>3
  <2>5. QED
    BY <2>1, <2>4
<1>3. /\ Object(set) /\ set.name = o.name /\ set.sink = o.sink /\ set.flush = rg_flush_level_
      /\ set.handler = handler /\ set.tracing = o.tracing /\ set.ring = o.ring
  <2> HIDE DEF set
  <2>1. QED
    BY <1>1, <1>s DEF Object
<1> HIDE DEF set
<1>4. CASE rg_backtrace_n_messages_ > 0
  <2> PICK t : t = Reg!Traced(set, rg_backtrace_n_messages_)
    OBVIOUS
  <2>1. LoggerSound(t, <<>>) /\ t.tracing /\ t.ring.max = rg_backtrace_n_messages_ + 1
    BY <1>1, <1>3, TracedIsSound
  <2>2. /\ t.name = set.name /\ t.sink = set.sink /\ t.flush = set.flush
        /\ t.handler = set.handler
    BY <1>3 DEF Reg!Traced, Object
  <2>3. Room(t) = rg_backtrace_n_messages_
    BY <2>1, <1>1 DEF Room
  <2>4. QED
    BY <2>1, <2>2, <2>3, <1>2, <1>3, <1>4 DEF handler
<1>5. CASE ~(rg_backtrace_n_messages_ > 0)
  <2>1. LoggerSound(set, s)
    BY <1>3 DEF LoggerSound
  <2>2. o.tracing = FALSE => Room(set) = rg_backtrace_n_messages_
    BY <1>1, <1>3, <1>5 DEF Room
  <2>3. QED
    BY <2>1, <2>2, <1>2, <1>3, <1>5 DEF handler
<1>6. QED
  BY <1>4, <1>5

LEMMA NewIsSound ==
    ASSUME RegistryParameters, NEW l \in rg_Loggers
    PROVE  /\ LoggerSound(Reg!NewLogger(l), <<>>) /\ Reg!NewLogger(l).name = rg_Name[l]
           /\ Reg!NewLogger(l).handler = rg_NoHandler /\ Reg!NewLogger(l).tracing = FALSE
           /\ Reg!NewLogger(l).sink = l
<1>1. /\ Reg!info \in Reg!trace..Reg!off /\ Reg!off \in Reg!trace..Reg!off /\ Ring(Disabled, TraceMessages)
      /\ <<>> \in Seq(TraceMessages) /\ rg_Name[l] \in Reg!Names
  BY EmptySeq DEF Reg!info, Reg!trace, Reg!off, Ring, Reg!Names
<1>2. QED
  BY <1>1, RegistryRing DEF Reg!NewLogger, LoggerSound, Object, RegistryParameters
------------------------------------------------------------------------------
(* The levels that come from a text.                                       *)

LEMMA FromStr ==
    ASSUME NEW name
    PROVE  Reg!from_str(name) \in Reg!trace..Reg!off
<1>1. ASSUME \E i \in DOMAIN Reg!level_string_views : Reg!level_string_views[i] = name
      PROVE  \E l \in Reg!trace..Reg!off : Reg!level_string_views[l + 1] = name
  <2> PICK i \in DOMAIN Reg!level_string_views : Reg!level_string_views[i] = name
    BY <1>1
  <2>1. i \in 1..7
    BY DEF Reg!level_string_views
  <2>2. i - 1 \in Reg!trace..Reg!off /\ (i - 1) + 1 = i
    BY <2>1 DEF Reg!trace, Reg!off
  <2>3. Reg!level_string_views[(i - 1) + 1] = name
    BY <2>2
  <2>4. QED
    BY <2>2, <2>3
<1>2. Reg!warn \in Reg!trace..Reg!off /\ Reg!err \in Reg!trace..Reg!off /\ Reg!off \in Reg!trace..Reg!off
  BY DEF Reg!warn, Reg!err, Reg!off, Reg!trace
<1>3. QED
  BY <1>1, <1>2 DEF Reg!from_str

LEMMA FirstOfText ==
    ASSUME NEW T, NEW t \in Seq(T), t # <<>>
    PROVE  t[1] \in T
<1>1. 1 \in 1..Len(t)
  BY EmptySeq
<1>2. QED
  BY <1>1

LEMMA LevelsOfText ==
    ASSUME NEW tokens \in Seq(Token)
    PROVE  /\ DOMAIN Reg!Levels(tokens) \subseteq STRING
           /\ \A n \in DOMAIN Reg!Levels(tokens) : Reg!Levels(tokens)[n] \in Reg!trace..Reg!off
           /\ Reg!GlobalLevel(tokens) = Reg!NoLevel \/ Reg!GlobalLevel(tokens) \in Reg!trace..Reg!off
<1> DEFINE pairs == Reg!extract_key_vals_(tokens)
<1>1. DOMAIN pairs \subseteq STRING \cup {""}
  <2>1. ASSUME NEW i \in DOMAIN tokens, tokens[i] # <<>> PROVE Reg!extract_kv_(tokens[i])[1] \in STRING \cup {""}
    <3> PICK t : t = tokens[i]
      OBVIOUS
    <3>0. t \in Token
      BY <2>1
    <3>1. t \in Seq(STRING) /\ t # <<>>
      BY <2>1, <3>0, Zenon DEF Token
    <3>2. t[1] \in STRING
      BY <3>1, FirstOfText, Zenon
    <3>3. Reg!extract_kv_(t) = IF Len(t) = 1 THEN <<"", t[1]>> ELSE t
      BY DEF Reg!extract_kv_
    <3>4. <<"", t[1]>>[1] = ""
      OBVIOUS
    <3>5. QED
      BY <3>2, <3>3, <3>4
  <2>2. QED
    BY <2>1 DEF Reg!extract_key_vals_
<1>2. Reg!Levels(tokens) = [k \in {n \in DOMAIN pairs : n # "" /\ Reg!Recognized(pairs[n])} |->
                          Reg!from_str(Reg!to_lower_(pairs[k]))]
  BY DEF Reg!Levels
<1>3. Reg!GlobalLevel(tokens) = Reg!NoLevel \/ Reg!GlobalLevel(tokens) = Reg!from_str(Reg!to_lower_(pairs[""]))
  BY DEF Reg!GlobalLevel
<1> HIDE DEF pairs
<1>4. QED
  BY <1>1, <1>2, <1>3, FromStr
------------------------------------------------------------------------------
(* The kinds of steps.                                                     *)

\* What the registry gives its loggers, in two of them.
Like(r, o) == r.handler = o.handler /\ r.flush = o.flush /\ Room(r) = Room(o)

LEMMA HeldIsTouched ==
    ASSUME RegistryParameters, Held
    PROVE  /\ Reg!Registered \subseteq rg_made /\ rg_made \subseteq rg_Loggers /\ rg_inTouch \subseteq rg_made
           /\ NoLogger \notin rg_made
           /\ \A k \in Reg!Registered : \E n \in Reg!Names : rg_loggers_[n] = k
           /\ \A n \in Reg!Names : rg_loggers_[n] # NoLogger => rg_loggers_[n] \in Reg!Registered
<1>1. \A n \in Reg!Names : rg_loggers_[n] \in rg_made \cup {NoLogger}
  BY DEF Held
<1>2. QED
  BY <1>1 DEF Held, Reg!Registered, RegistryParameters

\* Who is in the map is in it still.
LEMMA MapStays ==
    ASSUME RegistryParameters, Held, rg_made \subseteq rg_made', rg_made' \subseteq rg_Loggers,
           rg_loggers_' = rg_loggers_, rg_default_logger_' = rg_default_logger_,
           rg_inTouch' \subseteq rg_inTouch, rg_calls' \in 0..rg_MaxCalls
    PROVE  Held'
<1>1. Reg!Registered' = Reg!Registered
  BY DEF Reg!Registered
<1>2. rg_loggers_' \in [Reg!Names -> rg_made' \cup {NoLogger}]
  BY DEF Held
<1>3. QED
  BY <1>1, <1>2 DEF Held

\* The step that makes the object of l be r, with the history s, and what comes of it.
Becomes(l, r, s) == /\ rg_obj' = [rg_obj EXCEPT ![l] = r]
                    /\ rg_since' = [rg_since EXCEPT ![l] = s]

OnlyIs(l, r, s) == /\ rg_obj'[l] = r /\ rg_since'[l] = s
                   /\ \A k \in rg_Loggers \ {l} : rg_obj'[k] = rg_obj[k] /\ rg_since'[k] = rg_since[k]

LEMMA ObjectChanges ==
    ASSUME Objects, NEW l \in rg_Loggers, NEW r, NEW s, LoggerSound(r, s), Becomes(l, r, s)
    PROVE  Objects' /\ OnlyIs(l, r, s)
<1>1. OnlyIs(l, r, s)
  BY DEF Objects, Becomes, OnlyIs
<1>2. rg_obj' = [k \in rg_Loggers |-> rg_obj'[k]] /\ rg_since' = [k \in rg_Loggers |-> rg_since'[k]]
  BY DEF Objects, Becomes
<1>3. \A k \in rg_Loggers : LoggerSound(rg_obj'[k], rg_since'[k])
  BY <1>1 DEF Objects, OnlyIs
<1>4. QED
  BY <1>1, <1>2, <1>3 DEF Objects

\* One logger that exists changes, and keeps its name.
LEMMA OneLogger ==
    ASSUME RegistryParameters, LoggersInv, NEW l \in rg_made, NEW r, NEW s, LoggerSound(r, s),
           r.name = rg_obj[l].name, l \in rg_inTouch' => Like(r, rg_obj[l]),
           rg_obj' = [rg_obj EXCEPT ![l] = r], rg_since' = [rg_since EXCEPT ![l] = s],
           rg_inTouch' \subseteq rg_inTouch, rg_calls' \in 0..rg_MaxCalls,
           UNCHANGED <<rg_made, rg_loggers_, rg_default_logger_, Reg!settings, rg_flusher, rg_renamed>>
    PROVE  LoggersInv'
<1>1. l \in rg_Loggers /\ rg_made \subseteq rg_Loggers
  BY DEF LoggersInv, Held
<1>o. Objects /\ Held
  BY DEF LoggersInv
<1>2. /\ Objects' /\ rg_obj'[l] = r /\ rg_since'[l] = s
      /\ \A k \in rg_Loggers \ {l} : rg_obj'[k] = rg_obj[k] /\ rg_since'[k] = rg_since[k]
  <2>1. Becomes(l, r, s)
    BY Zenon DEF Becomes
  <2>2. Objects' /\ OnlyIs(l, r, s)
    BY <1>1, <1>o, <2>1, ObjectChanges, Zenon
  <2>3. QED
    BY <2>2, Zenon DEF OnlyIs
<1>3. Held'
  <2>1. /\ rg_made \subseteq rg_made' /\ rg_made' \subseteq rg_Loggers
        /\ rg_loggers_' = rg_loggers_ /\ rg_default_logger_' = rg_default_logger_
       
    BY <1>1
  <2>2. QED
    BY <1>o, <2>1, MapStays
<1>4. Settings'
  BY DEF LoggersInv, Settings, Reg!settings
<1>5. Fresh'
  BY <1>2 DEF LoggersInv, Fresh
<1>6. Named'
  BY <1>1, <1>2 DEF LoggersInv, Named
<1>7. Given'
  <2>1. ASSUME NEW k \in rg_inTouch' PROVE Reached(rg_obj[k]) /\ Like(rg_obj'[k], rg_obj[k])
    <3>1. Reached(rg_obj[k])
      BY <2>1, Zenon DEF LoggersInv, Given
    <3>2. k \in rg_Loggers
      BY <1>1, <2>1, HeldIsTouched DEF LoggersInv
    <3>3. QED
      BY <3>1, <3>2, <1>2 DEF Like
  <2>2. QED
    BY <2>1 DEF Given, Reached, Like, Room, Reg!settings
<1>8. QED
  BY <1>2, <1>3, <1>4, <1>5, <1>6, <1>7 DEF LoggersInv

\* Every logger in the map changes, and keeps its name; and the settings do.
LEMMA AllLoggers ==
    ASSUME RegistryParameters, LoggersInv, Settings',
           rg_obj' = [l \in rg_Loggers |-> rg_obj'[l]], rg_since' = [l \in rg_Loggers |-> rg_since'[l]],
           \A l \in Reg!Registered : LoggerSound(rg_obj'[l], rg_since'[l]) /\ rg_obj'[l].name = rg_obj[l].name,
           \A l \in rg_Loggers \ Reg!Registered : rg_obj'[l] = rg_obj[l] /\ rg_since'[l] = rg_since[l],
           \A l \in rg_inTouch : /\ rg_obj'[l].handler = rg_err_handler_'
                                 /\ rg_obj'[l].flush = rg_flush_level_'
                                 /\ Room(rg_obj'[l]) = rg_backtrace_n_messages_',
           Reg!Call, UNCHANGED <<rg_made, rg_loggers_, rg_default_logger_, rg_inTouch, rg_renamed>>
    PROVE  LoggersInv'
<1>1. Reg!Registered \subseteq rg_Loggers /\ Reg!Registered \subseteq rg_made /\ rg_made \subseteq rg_Loggers
  BY HeldIsTouched DEF LoggersInv
<1>2. rg_calls' \in 0..rg_MaxCalls /\ rg_inTouch' = rg_inTouch
  BY DEF LoggersInv, Held, Reg!Call, RegistryParameters
<1>3. Held'
  BY <1>1, <1>2, MapStays DEF LoggersInv
<1>4. Objects'
  BY <1>1 DEF LoggersInv, Objects
<1>5. Fresh'
  BY <1>1 DEF LoggersInv, Fresh
<1>6. \A l \in rg_Loggers : rg_obj'[l].name = rg_obj[l].name
  BY <1>1
<1>7. Named'
  BY <1>6 DEF LoggersInv, Named
<1>8. Given'
  BY <1>2 DEF Given, Reached
<1>9. QED
  BY <1>3, <1>4, <1>5, <1>7, <1>8 DEF LoggersInv

\* The map agrees with the names the loggers are made with.
MapNamed ==
    ~rg_renamed => /\ rg_default_logger_ # NoLogger => rg_loggers_[rg_Name[rg_default_logger_]] = rg_default_logger_
                   /\ \A n \in Reg!Names : rg_loggers_[n] # NoLogger => rg_Name[rg_loggers_[n]] = n

\* The map changes, and one logger that may be new.
LEMMA LoggerAndMap ==
    ASSUME RegistryParameters, LoggersInv, NEW l \in rg_Loggers, NEW r, NEW s, LoggerSound(r, s),
           r.name = rg_obj[l].name, rg_made' = rg_made \cup {l},
           rg_obj' = [rg_obj EXCEPT ![l] = r], rg_since' = [rg_since EXCEPT ![l] = s],
           rg_loggers_' \in [Reg!Names -> rg_made' \cup {NoLogger}],
           rg_default_logger_' \in rg_made' \cup {NoLogger}, MapNamed',
           rg_inTouch' \subseteq Reg!Registered', \A k \in rg_inTouch' : k \in rg_inTouch \ {l} \/ (k = l /\ Reached(r)),
           Reg!Call, UNCHANGED <<Reg!settings, rg_flusher, rg_renamed>>
    PROVE  LoggersInv'
<1>1. rg_made \subseteq rg_Loggers /\ rg_made' \subseteq rg_Loggers /\ rg_inTouch \subseteq rg_made
  BY HeldIsTouched DEF LoggersInv
<1>2. /\ Objects' /\ rg_obj'[l] = r /\ rg_since'[l] = s
      /\ \A k \in rg_Loggers \ {l} : rg_obj'[k] = rg_obj[k] /\ rg_since'[k] = rg_since[k]
  <2>1. /\ rg_obj = [k \in rg_Loggers |-> rg_obj[k]] /\ rg_since = [k \in rg_Loggers |-> rg_since[k]]
        /\ \A k \in rg_Loggers : LoggerSound(rg_obj[k], rg_since[k])
    BY DEF LoggersInv, Objects
  <2>2. /\ rg_obj'[l] = r /\ rg_since'[l] = s
        /\ \A k \in rg_Loggers \ {l} : rg_obj'[k] = rg_obj[k] /\ rg_since'[k] = rg_since[k]
    BY <2>1
  <2>3. rg_obj' = [k \in rg_Loggers |-> rg_obj'[k]] /\ rg_since' = [k \in rg_Loggers |-> rg_since'[k]]
    BY <2>1
  <2>4. \A k \in rg_Loggers : LoggerSound(rg_obj'[k], rg_since'[k])
    BY <2>1, <2>2
  <2>5. QED
    BY <2>2, <2>3, <2>4 DEF Objects
<1>3. Held'
  BY <1>1 DEF LoggersInv, Held, Reg!Call, RegistryParameters
<1>4. Settings'
  BY DEF LoggersInv, Settings, Reg!settings
<1>5. Fresh'
  BY <1>2 DEF LoggersInv, Fresh
<1>6. Named'
  BY <1>2 DEF LoggersInv, Named, MapNamed
<1>7. Given'
  <2>1. ASSUME NEW k \in rg_inTouch' PROVE Reached(rg_obj'[k])
    <3>1. CASE k \in rg_inTouch \ {l}
      <4>1. Reached(rg_obj[k]) /\ k \in rg_Loggers
        BY <3>1, <1>1, Zenon DEF LoggersInv, Given
      <4>2. QED
        BY <3>1, <4>1, <1>2
    <3>2. CASE k = l /\ Reached(r)
      BY <3>2, <1>2
    <3>3. QED
      BY <2>1, <3>1, <3>2
  <2>2. QED
    BY <2>1 DEF Given, Reached, Room, Reg!settings
<1>8. QED
  BY <1>2, <1>3, <1>4, <1>5, <1>6, <1>7 DEF LoggersInv

\* The map changes and no logger does.
LEMMA MapChanges ==
    ASSUME RegistryParameters, LoggersInv, rg_loggers_' \in [Reg!Names -> rg_made \cup {NoLogger}],
           rg_default_logger_' \in rg_made \cup {NoLogger}, MapNamed',
           rg_inTouch' \subseteq rg_inTouch, rg_inTouch' \subseteq Reg!Registered', Reg!Call, Settings',
           UNCHANGED <<rg_obj, rg_made, rg_since, rg_err_handler_, rg_flush_level_,
                       rg_backtrace_n_messages_, rg_renamed>>
    PROVE  LoggersInv'
<1>1. Held'
  BY DEF LoggersInv, Held, Reg!Call, RegistryParameters
<1>2. Objects' /\ Fresh'
  BY DEF LoggersInv, Objects, Fresh
<1>3. Named'
  BY DEF LoggersInv, Named, MapNamed
<1>4. Given'
  BY DEF LoggersInv, Given, Reached
<1>5. QED
  BY <1>1, <1>2, <1>3, <1>4 DEF LoggersInv

\* A logger is put into the map, under a name that is free.
LEMMA MapAdds ==
    ASSUME RegistryParameters, LoggersInv, NEW l \in rg_Loggers, Reg!Free(l), rg_made' = rg_made \cup {l},
           rg_loggers_' = [rg_loggers_ EXCEPT ![rg_obj[l].name] = l],
           rg_default_logger_' = rg_default_logger_, rg_renamed' = rg_renamed
    PROVE  /\ rg_loggers_' \in [Reg!Names -> rg_made' \cup {NoLogger}]
           /\ rg_default_logger_' \in rg_made' \cup {NoLogger}
           /\ Reg!Registered' = Reg!Registered \cup {l} /\ MapNamed'
<1> PICK n \in Reg!Names : n = rg_obj[l].name
  BY DEF LoggersInv, Objects, LoggerSound, Object
<1>1. rg_loggers_ \in [Reg!Names -> rg_made \cup {NoLogger}] /\ rg_loggers_[n] = NoLogger
  BY DEF LoggersInv, Held, Reg!Free
<1>2. rg_loggers_' = [rg_loggers_ EXCEPT ![n] = l]
  OBVIOUS
<1>3. rg_loggers_'[n] = l /\ \A m \in Reg!Names \ {n} : rg_loggers_'[m] = rg_loggers_[m]
  BY <1>1, <1>2
<1>4. rg_loggers_' \in [Reg!Names -> rg_made' \cup {NoLogger}]
  BY <1>1, <1>2
<1>5. Reg!Registered' = Reg!Registered \cup {l}
  <2>1. ASSUME NEW k PROVE k \in Reg!Registered' <=> k \in Reg!Registered \cup {l}
    BY <1>1, <1>3 DEF Reg!Registered, RegistryParameters
  <2>2. QED
    BY <2>1, Zenon
<1>6. MapNamed'
  <2>1. SUFFICES ASSUME ~rg_renamed PROVE
              /\ rg_default_logger_ # NoLogger => rg_loggers_'[rg_Name[rg_default_logger_]] = rg_default_logger_
              /\ \A m \in Reg!Names : rg_loggers_'[m] # NoLogger => rg_Name[rg_loggers_'[m]] = m
    BY DEF MapNamed
  <2>2. rg_Name[l] = n
    BY <2>1 DEF LoggersInv, Named
  <2>3. rg_default_logger_ # NoLogger => rg_Name[rg_default_logger_] \in Reg!Names
                                      /\ rg_loggers_[rg_Name[rg_default_logger_]] = rg_default_logger_
    BY <2>1 DEF LoggersInv, Named, Held, Reg!Names
  <2>4. \A m \in Reg!Names : rg_loggers_[m] # NoLogger => rg_Name[rg_loggers_[m]] = m
    BY <2>1 DEF LoggersInv, Named
  <2>5. QED
    BY <2>2, <2>3, <2>4, <1>1, <1>3
<1>7. QED
  BY <1>4, <1>5, <1>6 DEF LoggersInv, Held
------------------------------------------------------------------------------
(* The operations, one after the other.                                    *)

LEMMA CallIsCounted ==
    ASSUME RegistryParameters, LoggersInv, Reg!Call
    PROVE  rg_calls' \in 0..rg_MaxCalls /\ rg_calls \in Nat
BY DEF Reg!Call, LoggersInv, Held, RegistryParameters

LEMMA RegInitially ==
    ASSUME RegistryParameters, Reg!Init
    PROVE  LoggersInv
<1>1. /\ \A l \in rg_Loggers : rg_Name[l] \in Reg!Names
      /\ \A l \in rg_Loggers : LoggerSound(Reg!NewLogger(l), <<>>) /\ Reg!NewLogger(l).name = rg_Name[l]
  BY NewIsSound DEF Reg!Names, RegistryParameters
<1>2. Objects /\ Fresh
  BY <1>1 DEF Reg!Init, Objects, Fresh
<1>3. Settings
  <2>1. rg_log_levels_ = <<>> /\ DOMAIN <<>> = {}
    BY DEF Reg!Init
  <2>2. DOMAIN rg_log_levels_ = {}
    BY <2>1
  <2>3. rg_automatic_registration_ \in BOOLEAN /\ rg_flusher \in BOOLEAN
    BY DEF Reg!Init
  <2>4. /\ rg_global_log_level_ \in Reg!trace..Reg!off /\ rg_flush_level_ \in Reg!trace..Reg!off
        /\ rg_formatter_ \in rg_Formatters /\ rg_err_handler_ \in rg_Handlers
        /\ rg_backtrace_n_messages_ \in rg_TraceSizes \cup {0}
    BY DEF Reg!Init, RegistryParameters, Reg!info, Reg!off, Reg!trace
  <2>5. QED
    BY <2>2, <2>3, <2>4 DEF Settings
<1>4. rg_Default \in rg_Loggers /\ rg_Name[rg_Default] \in Reg!Names /\ rg_Default # NoLogger
  BY <1>1 DEF RegistryParameters
<1>5. /\ rg_loggers_ \in [Reg!Names -> rg_made \cup {NoLogger}] /\ rg_loggers_[rg_Name[rg_Default]] = rg_Default
      /\ \A n \in Reg!Names : rg_loggers_[n] # NoLogger => n = rg_Name[rg_Default] /\ rg_loggers_[n] = rg_Default
  BY <1>4 DEF Reg!Init
<1>6. Held
  BY <1>4, <1>5 DEF Reg!Init, Held, Reg!Registered, RegistryParameters
<1>7. Named
  BY <1>1, <1>2, <1>4, <1>5 DEF Reg!Init, Named, Objects
<1>8. Given
  <2>1. /\ rg_inTouch = {rg_Default} /\ rg_obj[rg_Default] = Reg!NewLogger(rg_Default)
        /\ rg_err_handler_ = rg_NoHandler /\ rg_flush_level_ = Reg!off /\ rg_backtrace_n_messages_ = 0
    BY <1>4 DEF Reg!Init
  <2>2. /\ Reg!NewLogger(rg_Default).handler = rg_NoHandler /\ Reg!NewLogger(rg_Default).flush = Reg!off
        /\ Reg!NewLogger(rg_Default).tracing = FALSE
    BY DEF Reg!NewLogger
  <2>3. QED
    BY <2>1, <2>2 DEF Given, Reached, Room
<1>9. QED
  BY <1>2, <1>3, <1>6, <1>7, <1>8 DEF LoggersInv

\* An object of the invariant.
LEMMA ObjectOf ==
    ASSUME RegistryParameters, LoggersInv, NEW l \in rg_Loggers
    PROVE  /\ LoggerSound(rg_obj[l], rg_since[l]) /\ Object(rg_obj[l]) /\ rg_obj[l].name \in Reg!Names
           /\ rg_since' = rg_since => rg_since' = [rg_since EXCEPT ![l] = rg_since[l]]
           /\ rg_obj' = rg_obj => rg_obj' = [rg_obj EXCEPT ![l] = rg_obj[l]]
<1>1. Objects
  BY DEF LoggersInv
<1>2. LoggerSound(rg_obj[l], rg_since[l])
  BY <1>1 DEF Objects
<1>3. rg_since = [rg_since EXCEPT ![l] = rg_since[l]]
  BY <1>1 DEF Objects
<1>4. rg_obj = [rg_obj EXCEPT ![l] = rg_obj[l]]
  BY <1>1 DEF Objects
<1>5. QED
  BY <1>2, <1>3, <1>4 DEF LoggerSound, Object

LEMMA SetOneKeeps ==
    ASSUME RegistryParameters, LoggersInv, NEW l \in rg_Loggers, NEW field, NEW v, Reg!SetOne(l, field, v),
           \/ field = "level" /\ v \in rg_LevelsUsed
           \/ field = "flush" /\ v \in rg_LevelsUsed
           \/ field = "handler" /\ v \in rg_Handlers
    PROVE  LoggersInv'
<1> PICK o, s : o = rg_obj[l] /\ s = rg_since[l]
  OBVIOUS
<1> PICK r : r = [o EXCEPT ![field] = v]
  OBVIOUS
<1>1. LoggerSound(o, s) /\ Object(o)
  BY ObjectOf
<1>2. LoggerSound(r, s) /\ r.name = o.name
  <2>1. CASE field = "level" /\ v \in rg_LevelsUsed
    <3>1. v \in Reg!trace..Reg!off
      BY <2>1 DEF RegistryParameters
    <3>2. r = [o EXCEPT !.level = v]
      BY <2>1, <1>1 DEF Object
    <3>3. LoggerSound([o EXCEPT !.level = v], s)
      BY <1>1, <3>1, SetIsSound
    <3>4. QED
      BY <1>1, <3>2, <3>3 DEF Object
  <2>2. CASE field = "flush" /\ v \in rg_LevelsUsed
    <3>1. v \in Reg!trace..Reg!off
      BY <2>2 DEF RegistryParameters
    <3>2. r = [o EXCEPT !.flush = v]
      BY <2>2, <1>1 DEF Object
    <3>3. LoggerSound([o EXCEPT !.flush = v], s)
      BY <1>1, <3>1, SetIsSound
    <3>4. QED
      BY <1>1, <3>2, <3>3 DEF Object
  <2>4. CASE field = "handler" /\ v \in rg_Handlers
    <3>2. r = [o EXCEPT !.handler = v]
      BY <2>4, <1>1 DEF Object
    <3>3. QED
      BY <1>1, <2>4, <3>2, SetIsSound DEF Object
  <2>5. QED
    BY <2>1, <2>2, <2>4
<1>3. /\ rg_obj' = [rg_obj EXCEPT ![l] = r] /\ rg_since' = [rg_since EXCEPT ![l] = s]
      /\ l \in rg_made /\ rg_inTouch' = rg_inTouch \ {l}
      /\ rg_calls' \in 0..rg_MaxCalls
      /\ UNCHANGED <<rg_made, rg_loggers_, rg_default_logger_, Reg!settings, rg_flusher, rg_renamed>>
  <2>1. rg_since' = rg_since /\ Reg!Call
    BY DEF Reg!SetOne
  <2>2. QED
    BY <2>1, ObjectOf, CallIsCounted DEF Reg!SetOne, LoggersInv, Held
<1>4. QED
  BY <1>2, <1>3, OneLogger

LEMMA SetFormatterOfKeeps ==
    ASSUME RegistryParameters, LoggersInv, NEW l \in rg_Loggers, NEW f, Reg!SetFormatterOf(l, f)
    PROVE  LoggersInv'
<1> PICK o, s : o = rg_obj[l] /\ s = rg_since[l]
  OBVIOUS
<1>1. /\ rg_obj' = rg_obj /\ rg_since' = rg_since /\ Reg!Call /\ l \in rg_made /\ rg_inTouch' \subseteq rg_inTouch
      /\ UNCHANGED <<rg_made, rg_loggers_, rg_default_logger_, Reg!settings, rg_flusher, rg_renamed>>
  BY DEF Reg!SetFormatterOf
<1>2. LoggerSound(o, s) /\ rg_obj' = [rg_obj EXCEPT ![l] = o] /\ rg_since' = [rg_since EXCEPT ![l] = s]
  BY <1>1, ObjectOf
<1>3. rg_calls' \in 0..rg_MaxCalls
  BY <1>1, CallIsCounted
<1>4. QED
  BY <1>1, <1>2, <1>3, OneLogger DEF Like

LEMMA EnableBacktraceOfKeeps ==
    ASSUME RegistryParameters, LoggersInv, NEW l \in rg_Loggers, NEW n \in rg_TraceSizes, Reg!EnableBacktraceOf(l, n)
    PROVE  LoggersInv'
<1> PICK o : o = rg_obj[l]
  OBVIOUS
<1> PICK r : r = Reg!Traced(o, n)
  OBVIOUS
<1>1. Object(o)
  BY ObjectOf
<1>2. LoggerSound(r, <<>>) /\ r.name = o.name
  BY <1>1, TracedIsSound DEF RegistryParameters, Reg!Traced, Object
<1>3. /\ rg_obj' = [rg_obj EXCEPT ![l] = r] /\ rg_since' = [rg_since EXCEPT ![l] = <<>>]
      /\ l \in rg_made /\ rg_inTouch' = rg_inTouch \ {l}
      /\ rg_calls' \in 0..rg_MaxCalls
      /\ UNCHANGED <<rg_made, rg_loggers_, rg_default_logger_, Reg!settings, rg_flusher, rg_renamed>>
  <2>1. rg_since' = [rg_since EXCEPT ![l] = <<>>]
    BY DEF Reg!EnableBacktraceOf, Reg!Empties, LoggersInv, Objects
  <2>2. QED
    BY <2>1, CallIsCounted DEF Reg!EnableBacktraceOf, LoggersInv, Held
<1>4. QED
  BY <1>2, <1>3, OneLogger

LEMMA DisableBacktraceOfKeeps ==
    ASSUME RegistryParameters, LoggersInv, NEW l \in rg_Loggers, Reg!DisableBacktraceOf(l)
    PROVE  LoggersInv'
<1> PICK o, s : o = rg_obj[l] /\ s = rg_since[l]
  OBVIOUS
<1> PICK r : r = Reg!Untraced(o)
  OBVIOUS
<1>1. LoggerSound(o, s) /\ Object(o)
  BY ObjectOf
<1>2. LoggerSound(r, s) /\ r.name = o.name
  BY <1>1, UntracedIsSound DEF Reg!Untraced, Object
<1>3. /\ rg_obj' = [rg_obj EXCEPT ![l] = r] /\ rg_since' = [rg_since EXCEPT ![l] = s]
      /\ l \in rg_made /\ rg_inTouch' = rg_inTouch \ {l}
      /\ rg_calls' \in 0..rg_MaxCalls
      /\ UNCHANGED <<rg_made, rg_loggers_, rg_default_logger_, Reg!settings, rg_flusher, rg_renamed>>
  <2>1. rg_since' = rg_since /\ Reg!Call
    BY DEF Reg!DisableBacktraceOf
  <2>2. QED
    BY <2>1, ObjectOf, CallIsCounted DEF Reg!DisableBacktraceOf, LoggersInv, Held
<1>4. QED
  BY <1>2, <1>3, OneLogger

LEMMA LogKeeps ==
    ASSUME RegistryParameters, LoggersInv, NEW l \in rg_Loggers, NEW level \in rg_LevelsUsed, Reg!Log(l, level)
    PROVE  LoggersInv'
<1> PICK o, s : o = rg_obj[l] /\ s = rg_since[l]
  OBVIOUS
<1> PICK msg : msg = [level |-> level, number |-> rg_calls]
  OBVIOUS
<1>1. LoggerSound(o, s) /\ Object(o)
  BY ObjectOf
<1>2. msg \in TraceMessages /\ rg_calls' \in 0..rg_MaxCalls
  BY CallIsCounted DEF TraceMessages, RegistryParameters, Reg!Log
<1>3. /\ l \in rg_made /\ rg_inTouch' = rg_inTouch
      /\ UNCHANGED <<rg_made, rg_loggers_, rg_default_logger_, Reg!settings, rg_flusher, rg_renamed>>
  BY DEF Reg!Log, Reg!SinkIt, LoggersInv, Held
<1>4. CASE o.tracing
  <2> PICK r : r = [o EXCEPT !.ring = PushBack(@, msg)]
    OBVIOUS
  <2>1. LoggerSound(r, Append(s, msg)) /\ r.ring.max = o.ring.max
    BY <1>1, <1>2, <1>4, PushedIsSound
  <2>2. r.name = o.name /\ Like(r, o)
    <3>1. r.name = o.name /\ r.handler = o.handler
          /\ r.flush = o.flush /\ r.tracing = o.tracing
      BY <1>1 DEF Object
    <3>2. QED
      BY <2>1, <3>1 DEF Like, Room
  <2>3. rg_obj' = [rg_obj EXCEPT ![l] = r] /\ rg_since' = [rg_since EXCEPT ![l] = Append(s, msg)]
    BY <1>4, RegistryRing DEF Reg!Log
  <2>4. QED
    BY <1>2, <1>3, <2>1, <2>2, <2>3, OneLogger
<1>5. CASE ~o.tracing
  <2>1. rg_obj' = rg_obj /\ rg_since' = rg_since
    BY <1>5 DEF Reg!Log
  <2>2. rg_obj' = [rg_obj EXCEPT ![l] = o] /\ rg_since' = [rg_since EXCEPT ![l] = s]
    BY <2>1, ObjectOf
  <2>3. QED
    BY <1>1, <1>2, <1>3, <2>2, OneLogger DEF Like
<1>6. QED
  BY <1>4, <1>5

LEMMA DumpBacktraceKeeps ==
    ASSUME RegistryParameters, LoggersInv, NEW l \in rg_Loggers, Reg!DumpBacktrace(l)
    PROVE  LoggersInv'
<1> PICK o, s : o = rg_obj[l] /\ s = rg_since[l]
  OBVIOUS
<1> PICK r : r = [o EXCEPT !.ring = Reg!Emptied(@)]
  OBVIOUS
<1>1. LoggerSound(o, s) /\ Object(o) /\ o.tracing
  BY ObjectOf DEF Reg!DumpBacktrace
<1>2. LoggerSound(r, <<>>) /\ r.ring.max = o.ring.max
  BY <1>1, EmptiedIsSound
<1>3. r.name = o.name /\ Like(r, o)
  <2>1. r.name = o.name /\ r.handler = o.handler
        /\ r.flush = o.flush /\ r.tracing = o.tracing
    BY <1>1 DEF Object
  <2>2. QED
    BY <1>2, <2>1 DEF Like, Room
<1>4. /\ rg_obj' = [rg_obj EXCEPT ![l] = r] /\ rg_since' = [rg_since EXCEPT ![l] = <<>>]
      /\ l \in rg_made /\ rg_inTouch' = rg_inTouch /\ rg_calls' \in 0..rg_MaxCalls
      /\ UNCHANGED <<rg_made, rg_loggers_, rg_default_logger_, Reg!settings, rg_flusher, rg_renamed>>
  <2>1. rg_since' = [rg_since EXCEPT ![l] = <<>>]
    BY DEF Reg!DumpBacktrace, Reg!Empties, LoggersInv, Objects
  <2>2. QED
    BY <2>1, CallIsCounted DEF Reg!DumpBacktrace, Reg!SinkIt, LoggersInv, Held
<1>5. QED
  BY <1>2, <1>3, <1>4, OneLogger

LEMMA FlushKeeps ==
    ASSUME RegistryParameters, LoggersInv, NEW l \in rg_Loggers, Reg!Flush(l)
    PROVE  LoggersInv'
<1> PICK o, s : o = rg_obj[l] /\ s = rg_since[l]
  OBVIOUS
<1>1. rg_obj' = rg_obj /\ rg_since' = rg_since /\ Reg!Call
  BY DEF Reg!Flush, Reg!history
<1>2. LoggerSound(o, s) /\ rg_obj' = [rg_obj EXCEPT ![l] = o] /\ rg_since' = [rg_since EXCEPT ![l] = s]
  BY <1>1, ObjectOf
<1>3. /\ l \in rg_made /\ rg_inTouch' = rg_inTouch /\ rg_calls' \in 0..rg_MaxCalls
      /\ UNCHANGED <<rg_made, rg_loggers_, rg_default_logger_, Reg!settings, rg_flusher, rg_renamed>>
  BY <1>1, CallIsCounted DEF Reg!Flush, LoggersInv, Held, Reg!history
<1>4. QED
  BY <1>2, <1>3, OneLogger DEF Like

LEMMA MapKept ==
    ASSUME RegistryParameters, LoggersInv, rg_made \subseteq rg_made', rg_loggers_' = rg_loggers_,
           rg_default_logger_' = rg_default_logger_, rg_renamed' = rg_renamed
    PROVE  /\ rg_loggers_' \in [Reg!Names -> rg_made' \cup {NoLogger}]
           /\ rg_default_logger_' \in rg_made' \cup {NoLogger}
           /\ Reg!Registered' = Reg!Registered /\ MapNamed'
<1>1. Reg!Registered' = Reg!Registered
  BY DEF Reg!Registered
<1>2. MapNamed'
  BY DEF LoggersInv, Named, MapNamed
<1>3. QED
  BY <1>1, <1>2 DEF LoggersInv, Held

LEMMA MakeKeeps ==
    ASSUME RegistryParameters, LoggersInv, NEW l \in rg_Loggers, Reg!Make(l)
    PROVE  LoggersInv'
<1> PICK o, s : o = rg_obj[l] /\ s = rg_since[l]
  OBVIOUS
<1>1. rg_obj' = rg_obj /\ rg_since' = rg_since /\ Reg!Call
  BY DEF Reg!Make, Reg!history
<1>2. LoggerSound(o, s) /\ rg_obj' = [rg_obj EXCEPT ![l] = o] /\ rg_since' = [rg_since EXCEPT ![l] = s]
  BY <1>1, ObjectOf
<1>3. /\ rg_made' = rg_made \cup {l} /\ rg_inTouch' = rg_inTouch /\ l \notin rg_inTouch
      /\ UNCHANGED <<rg_loggers_, rg_default_logger_, Reg!settings, rg_flusher, rg_renamed>>
  BY HeldIsTouched DEF Reg!Make, Reg!history, LoggersInv
<1>4. /\ rg_loggers_' \in [Reg!Names -> rg_made' \cup {NoLogger}]
      /\ rg_default_logger_' \in rg_made' \cup {NoLogger}
      /\ Reg!Registered' = Reg!Registered /\ MapNamed'
  BY <1>3, MapKept
<1>5. rg_inTouch' \subseteq Reg!Registered' /\ \A k \in rg_inTouch' : k \in rg_inTouch \ {l}
  BY <1>3, <1>4 DEF LoggersInv, Held
<1>6. QED
  BY <1>1, <1>2, <1>3, <1>4, <1>5, LoggerAndMap

LEMMA CloneKeeps ==
    ASSUME RegistryParameters, LoggersInv, NEW l \in rg_Loggers, NEW copy \in rg_Loggers, Reg!Clone(l, copy)
    PROVE  LoggersInv'
<1> PICK o, s : o = rg_obj[l] /\ s = rg_since[l]
  OBVIOUS
<1> PICK r : r = [o EXCEPT !.name = rg_Name[copy]]
  OBVIOUS
<1>1. LoggerSound(o, s) /\ Object(o) /\ rg_Name[copy] \in Reg!Names
  BY ObjectOf DEF Reg!Names
<1>2. LoggerSound(r, s) /\ r.name = rg_Name[copy]
  BY <1>1, SetIsSound DEF Object
<1>3. rg_obj[copy].name = rg_Name[copy]
  <2>1. copy \in rg_Loggers \ rg_made
    BY DEF Reg!Clone
  <2>2. rg_obj[copy] = Reg!NewLogger(copy)
    BY <2>1 DEF LoggersInv, Fresh
  <2>3. QED
    BY <2>2 DEF Reg!NewLogger
<1>4. /\ rg_made' = rg_made \cup {copy} /\ rg_inTouch' = rg_inTouch /\ copy \notin rg_inTouch
      /\ rg_obj' = [rg_obj EXCEPT ![copy] = r] /\ rg_since' = [rg_since EXCEPT ![copy] = s]
      /\ Reg!Call /\ UNCHANGED <<rg_loggers_, rg_default_logger_, Reg!settings, rg_flusher, rg_renamed>>
  BY HeldIsTouched DEF Reg!Clone, LoggersInv
<1>5. /\ rg_loggers_' \in [Reg!Names -> rg_made' \cup {NoLogger}]
      /\ rg_default_logger_' \in rg_made' \cup {NoLogger}
      /\ Reg!Registered' = Reg!Registered /\ MapNamed'
  BY <1>4, MapKept
<1>6. rg_inTouch' \subseteq Reg!Registered' /\ \A k \in rg_inTouch' : k \in rg_inTouch \ {copy}
  BY <1>4, <1>5 DEF LoggersInv, Held
<1>7. QED
  BY <1>2, <1>3, <1>4, <1>5, <1>6, LoggerAndMap

LEMMA SwapKeeps ==
    ASSUME RegistryParameters, LoggersInv, NEW l \in rg_Loggers, NEW k \in rg_Loggers, Reg!Swap(l, k)
    PROVE  LoggersInv'
<1>1. /\ l \in rg_made /\ k \in rg_made /\ l # k /\ Reg!Call
      /\ rg_obj' = [rg_obj EXCEPT ![l] = rg_obj[k], ![k] = rg_obj[l]]
      /\ rg_since' = [rg_since EXCEPT ![l] = rg_since[k], ![k] = rg_since[l]]
      /\ rg_inTouch' = rg_inTouch \ {l, k} /\ rg_renamed' = TRUE
      /\ UNCHANGED <<rg_made, rg_loggers_, rg_default_logger_, Reg!settings, rg_flusher>>
  BY DEF Reg!Swap
<1>2. /\ rg_obj = [m \in rg_Loggers |-> rg_obj[m]] /\ rg_since = [m \in rg_Loggers |-> rg_since[m]]
      /\ \A m \in rg_Loggers : LoggerSound(rg_obj[m], rg_since[m])
  BY DEF LoggersInv, Objects
<1>3. /\ rg_obj'[l] = rg_obj[k] /\ rg_since'[l] = rg_since[k] /\ rg_obj'[k] = rg_obj[l] /\ rg_since'[k] = rg_since[l]
      /\ \A m \in rg_Loggers \ {l, k} : rg_obj'[m] = rg_obj[m] /\ rg_since'[m] = rg_since[m]
      /\ rg_obj' = [m \in rg_Loggers |-> rg_obj'[m]] /\ rg_since' = [m \in rg_Loggers |-> rg_since'[m]]
  BY <1>1, <1>2
<1>4. Objects'
  <2>1. \A m \in rg_Loggers : LoggerSound(rg_obj'[m], rg_since'[m])
    BY <1>2, <1>3
  <2>2. QED
    BY <1>3, <2>1 DEF Objects
<1>5. Fresh'
  BY <1>1, <1>3 DEF LoggersInv, Fresh
<1>6. Held'
  <2>1. rg_calls' \in 0..rg_MaxCalls /\ rg_made \subseteq rg_Loggers
    BY <1>1, CallIsCounted DEF LoggersInv, Held
  <2>2. QED
    BY <1>1, <2>1, MapStays DEF LoggersInv
<1>7. Settings'
  BY <1>1 DEF LoggersInv, Settings, Reg!settings
<1>8. Named'
  BY <1>1 DEF Named
<1>9. Given'
  <2>1. \A m \in rg_inTouch' : m \in rg_Loggers \ {l, k} /\ m \in rg_inTouch
    BY <1>1, HeldIsTouched DEF LoggersInv
  <2>2. \A m \in rg_inTouch' : rg_obj'[m] = rg_obj[m]
    BY <2>1, <1>3
  <2>3. QED
    BY <1>1, <2>1, <2>2 DEF LoggersInv, Given, Reached, Reg!settings
<1>10. QED
  BY <1>4, <1>5, <1>6, <1>7, <1>8, <1>9 DEF LoggersInv

LEMMA RegisterLoggerKeeps ==
    ASSUME RegistryParameters, LoggersInv, NEW l \in rg_Loggers, Reg!RegisterLogger(l)
    PROVE  LoggersInv'
<1> PICK o, s : o = rg_obj[l] /\ s = rg_since[l]
  OBVIOUS
<1>1. rg_obj' = rg_obj /\ rg_since' = rg_since /\ Reg!Call
  BY DEF Reg!RegisterLogger
<1>2. LoggerSound(o, s) /\ rg_obj' = [rg_obj EXCEPT ![l] = o] /\ rg_since' = [rg_since EXCEPT ![l] = s]
  BY <1>1, ObjectOf
<1>3. /\ rg_made' = rg_made \cup {l} /\ rg_inTouch' = rg_inTouch \ {l} /\ Reg!Free(l)
      /\ rg_loggers_' = [rg_loggers_ EXCEPT ![rg_obj[l].name] = l]
      /\ UNCHANGED <<rg_default_logger_, Reg!settings, rg_flusher, rg_renamed>>
  BY DEF Reg!RegisterLogger
<1>4. /\ rg_loggers_' \in [Reg!Names -> rg_made' \cup {NoLogger}]
      /\ rg_default_logger_' \in rg_made' \cup {NoLogger}
      /\ Reg!Registered' = Reg!Registered \cup {l} /\ MapNamed'
  BY <1>3, MapAdds
<1>5. rg_inTouch' \subseteq Reg!Registered' /\ \A k \in rg_inTouch' : k \in rg_inTouch \ {l}
  BY <1>3, <1>4 DEF LoggersInv, Held
<1>6. QED
  BY <1>1, <1>2, <1>3, <1>4, <1>5, LoggerAndMap

LEMMA InitializeLoggerKeeps ==
    ASSUME RegistryParameters, LoggersInv, NEW l \in rg_Loggers, Reg!InitializeLogger(l)
    PROVE  LoggersInv'
<1> PICK o, s, r : o = rg_obj[l] /\ s = rg_since[l] /\ r = Reg!Initialized(rg_obj[l])
  OBVIOUS
<1> PICK t : t = IF rg_backtrace_n_messages_ > 0 THEN <<>> ELSE s
  OBVIOUS
<1>1. LoggerSound(o, s)
  BY ObjectOf
<1>2. LoggerSound(r, t) /\ r.name = o.name
  BY <1>1, InitializedIsSound DEF LoggersInv, RegistryParameters
<1>3. /\ rg_made' = rg_made \cup {l} /\ rg_inTouch' = rg_inTouch \ {l} /\ Reg!Call
      /\ rg_obj' = [rg_obj EXCEPT ![l] = r]
      /\ UNCHANGED <<rg_made, rg_default_logger_, Reg!settings, rg_flusher, rg_renamed>>
  BY DEF Reg!InitializeLogger
<1>4. rg_since' = [rg_since EXCEPT ![l] = t]
  <2>1. CASE rg_backtrace_n_messages_ > 0
    BY <2>1 DEF Reg!InitializeLogger, Reg!Empties, LoggersInv, Objects
  <2>2. CASE ~(rg_backtrace_n_messages_ > 0)
    BY <2>2, ObjectOf DEF Reg!InitializeLogger
  <2>3. QED
    BY <2>1, <2>2
<1>5. /\ rg_loggers_' \in [Reg!Names -> rg_made' \cup {NoLogger}]
      /\ rg_default_logger_' \in rg_made' \cup {NoLogger}
      /\ Reg!Registered \subseteq Reg!Registered' /\ MapNamed'
  <2>1. CASE rg_automatic_registration_ /\ Reg!Free(l)
    <3>1. rg_loggers_' = [rg_loggers_ EXCEPT ![rg_obj[l].name] = l]
      BY <2>1 DEF Reg!InitializeLogger
    <3>2. QED
      BY <2>1, <3>1, <1>3, MapAdds
  <2>2. CASE ~(rg_automatic_registration_ /\ Reg!Free(l))
    <3>1. rg_loggers_' = rg_loggers_
      BY <2>2 DEF Reg!InitializeLogger
    <3>2. QED
      BY <3>1, <1>3, MapKept
  <2>3. QED
    BY <2>1, <2>2
<1>6. rg_inTouch' \subseteq Reg!Registered' /\ \A k \in rg_inTouch' : k \in rg_inTouch \ {l}
  BY <1>3, <1>5 DEF LoggersInv, Held
<1>7. QED
  BY <1>2, <1>3, <1>4, <1>5, <1>6, LoggerAndMap

\* A new logger, with the settings of the registry.
LEMMA NewInitialized ==
    ASSUME RegistryParameters, LoggersInv, NEW l \in rg_Loggers \ rg_made
    PROVE  LET r == Reg!Initialized(rg_obj[l]) IN
             LoggerSound(r, rg_since[l]) /\ r.name = rg_obj[l].name /\ Reached(r)
<1> PICK o, s, r : o = rg_obj[l] /\ s = rg_since[l] /\ r = Reg!Initialized(rg_obj[l])
  OBVIOUS
<1>1. LoggerSound(o, s) /\ s = <<>> /\ o.handler = rg_NoHandler /\ o.tracing = FALSE
  <2>1. o = Reg!NewLogger(l) /\ s = <<>>
    BY DEF LoggersInv, Fresh
  <2>2. o.handler = rg_NoHandler /\ o.tracing = FALSE
    BY <2>1 DEF Reg!NewLogger
  <2>3. QED
    BY <2>1, <2>2, ObjectOf
<1>2. /\ LoggerSound(r, <<>>) /\ r.name = o.name /\ r.flush = rg_flush_level_
      /\ r.handler = IF rg_err_handler_ # rg_NoHandler THEN rg_err_handler_ ELSE o.handler
      /\ Room(r) = rg_backtrace_n_messages_
  BY <1>1, InitializedIsSound DEF LoggersInv, RegistryParameters
<1>3. QED
  BY <1>1, <1>2 DEF Reached

LEMMA CreateLoggerKeeps ==
    ASSUME RegistryParameters, LoggersInv, NEW l \in rg_Loggers, Reg!CreateLogger(l)
    PROVE  LoggersInv'
<1> PICK s, r : s = rg_since[l] /\ r = Reg!Initialized(rg_obj[l])
  OBVIOUS
<1>1. LoggerSound(r, s) /\ r.name = rg_obj[l].name /\ Reached(r)
  BY NewInitialized DEF Reg!CreateLogger
<1>2. /\ rg_made' = rg_made \cup {l} /\ Reg!Call
      /\ rg_obj' = [rg_obj EXCEPT ![l] = r] /\ l \notin rg_inTouch
      /\ UNCHANGED <<rg_default_logger_, Reg!settings, rg_flusher, rg_renamed>>
  BY HeldIsTouched DEF Reg!CreateLogger, LoggersInv
<1>3. rg_since' = [rg_since EXCEPT ![l] = s]
  BY ObjectOf DEF Reg!CreateLogger
<1>4. CASE rg_automatic_registration_
  <2>1. rg_loggers_' = [rg_loggers_ EXCEPT ![rg_obj[l].name] = l] /\ Reg!Free(l) /\ rg_inTouch' = rg_inTouch \cup {l}
    BY <1>4 DEF Reg!CreateLogger
  <2>2. /\ rg_loggers_' \in [Reg!Names -> rg_made' \cup {NoLogger}]
        /\ rg_default_logger_' \in rg_made' \cup {NoLogger}
        /\ Reg!Registered' = Reg!Registered \cup {l} /\ MapNamed'
    BY <2>1, <1>2, MapAdds
  <2>3. rg_inTouch' \subseteq Reg!Registered' /\ \A k \in rg_inTouch' : k \in rg_inTouch \ {l} \/ k = l
    BY <2>1, <2>2 DEF LoggersInv, Held
  <2>4. QED
    BY <2>2, <2>3, <1>1, <1>2, <1>3, LoggerAndMap
<1>5. CASE ~rg_automatic_registration_
  <2>1. rg_loggers_' = rg_loggers_ /\ rg_inTouch' = rg_inTouch
    BY <1>5 DEF Reg!CreateLogger
  <2>2. /\ rg_loggers_' \in [Reg!Names -> rg_made' \cup {NoLogger}]
        /\ rg_default_logger_' \in rg_made' \cup {NoLogger}
        /\ Reg!Registered' = Reg!Registered /\ MapNamed'
    BY <2>1, <1>2, MapKept
  <2>3. rg_inTouch' \subseteq Reg!Registered' /\ \A k \in rg_inTouch' : k \in rg_inTouch \ {l}
    BY <2>1, <2>2, <1>2 DEF LoggersInv, Held
  <2>4. QED
    BY <2>2, <2>3, <1>1, <1>2, <1>3, LoggerAndMap
<1>6. QED
  BY <1>4, <1>5

\* set_default_logger: of the map with the new default in it.
LEMMA DefaultIsIn ==
    ASSUME RegistryParameters, LoggersInv, NEW l \in rg_Loggers \cup {NoLogger}, l \in rg_made' \cup {NoLogger},
           rg_made \subseteq rg_made', rg_loggers_' = Reg!WithDefault(l), rg_default_logger_' = l,
           rg_renamed' = rg_renamed
    PROVE  /\ rg_loggers_' \in [Reg!Names -> rg_made' \cup {NoLogger}] /\ MapNamed'
           /\ l # NoLogger => l \in Reg!Registered'
           /\ \A k : k # NoLogger /\ k \in {rg_loggers_'[n] : n \in Reg!Names} => k \in Reg!Registered'
<1>1. rg_loggers_ \in [Reg!Names -> rg_made \cup {NoLogger}] /\ \A k \in rg_Loggers : rg_obj[k].name \in Reg!Names
  BY ObjectOf DEF LoggersInv, Held
<1>2. rg_loggers_' \in [Reg!Names -> rg_made' \cup {NoLogger}]
  BY <1>1 DEF Reg!WithDefault
<1>3. l # NoLogger => rg_loggers_'[rg_obj[l].name] = l /\ rg_obj[l].name \in Reg!Names
  BY <1>1 DEF Reg!WithDefault
<1>4. MapNamed'
  <2>1. SUFFICES ASSUME ~rg_renamed PROVE
              /\ l # NoLogger => rg_loggers_'[rg_Name[l]] = l
              /\ \A n \in Reg!Names : rg_loggers_'[n] # NoLogger => rg_Name[rg_loggers_'[n]] = n
    BY DEF MapNamed
  <2>2. /\ \A k \in rg_Loggers : rg_obj[k].name = rg_Name[k]
        /\ \A n \in Reg!Names : rg_loggers_[n] # NoLogger => rg_Name[rg_loggers_[n]] = n
    BY <2>1 DEF LoggersInv, Named
  <2>3. l # NoLogger => rg_loggers_'[rg_Name[l]] = l
    BY <1>3, <2>2
  <2>4. ASSUME NEW n \in Reg!Names, rg_loggers_'[n] # NoLogger PROVE rg_Name[rg_loggers_'[n]] = n
    <3>1. \/ l # NoLogger /\ n = rg_obj[l].name /\ rg_loggers_'[n] = l
          \/ rg_loggers_'[n] = rg_loggers_[n]
      BY <2>4 DEF Reg!WithDefault
    <3>2. QED
      BY <3>1, <2>2, <2>4
  <2>5. QED
    BY <2>3, <2>4
<1>5. \A k : k # NoLogger /\ k \in {rg_loggers_'[n] : n \in Reg!Names} => k \in Reg!Registered'
  BY DEF Reg!Registered
<1>6. l # NoLogger => l \in Reg!Registered'
  BY <1>3, <1>5
<1>7. QED
  BY <1>2, <1>4, <1>5, <1>6

LEMMA SetDefaultLoggerKeeps ==
    ASSUME RegistryParameters, LoggersInv, NEW l \in rg_Loggers \cup {NoLogger}, Reg!SetDefaultLogger(l)
    PROVE  LoggersInv'
<1>1. /\ l \in rg_made \cup {NoLogger} /\ rg_loggers_' = Reg!WithDefault(l) /\ rg_default_logger_' = l
      /\ rg_inTouch' = Reg!StillIn(rg_inTouch, rg_loggers_') /\ Reg!Call
      /\ UNCHANGED <<rg_obj, rg_made, Reg!settings, rg_flusher, rg_since, rg_renamed>>
  BY DEF Reg!SetDefaultLogger
<1>2. /\ rg_loggers_' \in [Reg!Names -> rg_made \cup {NoLogger}] /\ MapNamed'
      /\ \A k : k # NoLogger /\ k \in {rg_loggers_'[n] : n \in Reg!Names} => k \in Reg!Registered'
  BY <1>1, DefaultIsIn
<1>3. rg_inTouch' \subseteq rg_inTouch /\ rg_inTouch' \subseteq Reg!Registered'
  <2>1. \A k \in rg_inTouch : k # NoLogger
    BY HeldIsTouched DEF LoggersInv
  <2>2. QED
    BY <1>1, <1>2, <2>1 DEF Reg!StillIn
<1>4. Settings'
  BY <1>1 DEF LoggersInv, Settings, Reg!settings
<1>5. QED
  BY <1>1, <1>2, <1>3, <1>4, MapChanges DEF Reg!settings

LEMMA LogToKeeps ==
    ASSUME RegistryParameters, LoggersInv, NEW l \in rg_Loggers, Reg!LogTo(l)
    PROVE  LoggersInv'
<1> PICK s, r : s = rg_since[l] /\ r = Reg!Initialized(rg_obj[l])
  OBVIOUS
<1>1. LoggerSound(r, s) /\ r.name = rg_obj[l].name /\ Reached(r)
  BY NewInitialized DEF Reg!LogTo
<1>2. /\ rg_made' = rg_made \cup {l} /\ Reg!Call /\ rg_obj' = [rg_obj EXCEPT ![l] = r]
      /\ rg_loggers_' = Reg!WithDefault(l) /\ rg_default_logger_' = l
      /\ rg_inTouch' = Reg!StillIn(rg_inTouch, rg_loggers_') \cup {l} /\ l \notin rg_inTouch
      /\ UNCHANGED <<Reg!settings, rg_flusher, rg_renamed>>
  BY HeldIsTouched DEF Reg!LogTo, LoggersInv
<1>3. rg_since' = [rg_since EXCEPT ![l] = s]
  BY ObjectOf DEF Reg!LogTo
<1>4. /\ rg_loggers_' \in [Reg!Names -> rg_made' \cup {NoLogger}] /\ MapNamed'
      /\ l # NoLogger => l \in Reg!Registered'
      /\ \A k : k # NoLogger /\ k \in {rg_loggers_'[n] : n \in Reg!Names} => k \in Reg!Registered'
  BY <1>2, DefaultIsIn
<1>5. rg_inTouch' \subseteq Reg!Registered' /\ \A k \in rg_inTouch' : k \in rg_inTouch \ {l} \/ k = l
  <2>1. l # NoLogger /\ \A k \in rg_inTouch : k # NoLogger
    BY HeldIsTouched DEF LoggersInv, RegistryParameters
  <2>2. QED
    BY <1>2, <1>4, <2>1 DEF Reg!StillIn
<1>6. QED
  BY <1>1, <1>2, <1>3, <1>4, <1>5, LoggerAndMap

\* The loggers that drop out of the map.
LEMMA SmallerMap ==
    ASSUME RegistryParameters, LoggersInv, rg_loggers_' \in [Reg!Names -> rg_made \cup {NoLogger}],
           \A n \in Reg!Names : rg_loggers_'[n] \in {rg_loggers_[n], NoLogger},
           rg_default_logger_' \in {rg_default_logger_, NoLogger},
           ~rg_renamed /\ rg_default_logger_' # NoLogger =>
                rg_loggers_'[rg_Name[rg_default_logger_]] = rg_loggers_[rg_Name[rg_default_logger_]],
           rg_inTouch' = Reg!StillIn(rg_inTouch, rg_loggers_'), Reg!Call,
           UNCHANGED <<rg_obj, rg_made, Reg!settings, rg_since, rg_renamed>>, rg_flusher' \in BOOLEAN
    PROVE  LoggersInv'
<1>1. MapNamed'
  BY DEF LoggersInv, Named, MapNamed
<1>2. rg_inTouch' \subseteq rg_inTouch /\ rg_inTouch' \subseteq Reg!Registered'
  <2>1. \A k \in rg_inTouch : k # NoLogger
    BY HeldIsTouched DEF LoggersInv
  <2>2. QED
    BY <2>1 DEF Reg!StillIn, Reg!Registered
<1>3. Settings'
  BY DEF LoggersInv, Settings, Reg!settings
<1>4. rg_default_logger_' \in rg_made \cup {NoLogger}
  BY DEF LoggersInv, Held
<1>5. QED
  BY <1>1, <1>2, <1>3, <1>4, MapChanges DEF Reg!settings

LEMMA DropKeeps ==
    ASSUME RegistryParameters, LoggersInv, NEW n \in Reg!Names, Reg!Drop(n)
    PROVE  LoggersInv'
<1>1. rg_loggers_ \in [Reg!Names -> rg_made \cup {NoLogger}] /\ rg_default_logger_ \in rg_made \cup {NoLogger}
      /\ rg_made \subseteq rg_Loggers
  BY DEF LoggersInv, Held
<1>2. /\ rg_loggers_' = [rg_loggers_ EXCEPT ![n] = NoLogger] /\ Reg!Call
      /\ rg_default_logger_' = IF rg_default_logger_ # NoLogger /\ rg_obj[rg_default_logger_].name = n
                               THEN NoLogger ELSE rg_default_logger_
      /\ rg_inTouch' = Reg!StillIn(rg_inTouch, rg_loggers_')
      /\ UNCHANGED <<rg_obj, rg_made, Reg!settings, rg_flusher, rg_since, rg_renamed>>
  BY DEF Reg!Drop, Reg!Dropped
<1>3. /\ rg_loggers_' \in [Reg!Names -> rg_made \cup {NoLogger}]
      /\ \A m \in Reg!Names : rg_loggers_'[m] \in {rg_loggers_[m], NoLogger}
      /\ \A m \in Reg!Names : m # n => rg_loggers_'[m] = rg_loggers_[m]
  BY <1>1, <1>2
<1>4. ~rg_renamed /\ rg_default_logger_' # NoLogger =>
         rg_loggers_'[rg_Name[rg_default_logger_]] = rg_loggers_[rg_Name[rg_default_logger_]]
  <2>1. SUFFICES ASSUME ~rg_renamed, rg_default_logger_' # NoLogger
                 PROVE rg_loggers_'[rg_Name[rg_default_logger_]] = rg_loggers_[rg_Name[rg_default_logger_]]
    OBVIOUS
  <2>2. rg_default_logger_ \in rg_Loggers /\ rg_obj[rg_default_logger_].name # n
    BY <2>1, <1>1, <1>2
  <2>3. rg_Name[rg_default_logger_] # n /\ rg_Name[rg_default_logger_] \in Reg!Names
    BY <2>1, <2>2 DEF LoggersInv, Named, Reg!Names
  <2>4. QED
    BY <2>3, <1>3
<1>5. rg_flusher' \in BOOLEAN
  BY <1>2 DEF LoggersInv, Settings
<1>6. QED
  BY <1>2, <1>3, <1>4, <1>5, SmallerMap

LEMMA DropAllKeeps ==
    ASSUME RegistryParameters, LoggersInv, Reg!DropAll \/ Reg!Shutdown
    PROVE  LoggersInv'
<1>1. /\ rg_loggers_' = [n \in Reg!Names |-> NoLogger] /\ rg_default_logger_' = NoLogger /\ Reg!Call
      /\ rg_inTouch' = {} /\ UNCHANGED <<rg_obj, rg_made, Reg!settings, rg_since, rg_renamed>>
  BY DEF Reg!DropAll, Reg!Shutdown
<1>2. rg_inTouch' = Reg!StillIn(rg_inTouch, rg_loggers_')
  <2>1. \A k \in rg_inTouch : k # NoLogger
    BY HeldIsTouched DEF LoggersInv
  <2>2. QED
    BY <1>1, <2>1 DEF Reg!StillIn
<1>3. rg_flusher' \in BOOLEAN
  BY DEF Reg!DropAll, Reg!Shutdown, LoggersInv, Settings
<1>4. QED
  BY <1>1, <1>2, <1>3, SmallerMap

LEMMA FlusherKeeps ==
    ASSUME RegistryParameters, LoggersInv,
           Reg!FlushAll \/ (\E interval \in {0, 5} : Reg!FlushEvery(interval))
           \/ (\E b \in BOOLEAN : Reg!SetAutomaticRegistration(b))
    PROVE  LoggersInv'
<1>1. /\ UNCHANGED <<rg_obj, rg_made, rg_loggers_, rg_default_logger_, rg_since, rg_inTouch, rg_renamed, rg_log_levels_,
                     rg_global_log_level_, rg_flush_level_, rg_formatter_, rg_err_handler_,
                     rg_backtrace_n_messages_>>
      /\ rg_calls' \in 0..rg_MaxCalls
  BY CallIsCounted DEF Reg!FlushAll, Reg!FlushEvery, Reg!SetAutomaticRegistration, Reg!settings, Reg!history,
                       LoggersInv, Held
<1>2. rg_flusher' \in BOOLEAN /\ rg_automatic_registration_' \in BOOLEAN
  <2>1. rg_flusher \in BOOLEAN /\ rg_automatic_registration_ \in BOOLEAN
    BY DEF LoggersInv, Settings
  <2>2. CASE Reg!FlushAll
    BY <2>1, <2>2, Zenon DEF Reg!FlushAll, Reg!settings
  <2>3. CASE \E interval \in {0, 5} : Reg!FlushEvery(interval)
    <3>1. PICK interval \in {0, 5} : Reg!FlushEvery(interval)
      BY <2>3
    <3>2. rg_flusher' = (interval > 0) /\ rg_automatic_registration_' = rg_automatic_registration_
      BY <3>1, Zenon DEF Reg!FlushEvery, Reg!settings
    <3>3. rg_flusher' \in BOOLEAN
      <4>1. CASE interval > 0
        BY <4>1, <3>2, Zenon
      <4>2. CASE ~(interval > 0)
        <5>1. (interval > 0) = FALSE
          BY <4>2, SMT
        <5>2. rg_flusher' = FALSE
          BY <3>2, <5>1, Zenon
        <5>3. QED
          BY <5>2
      <4>3. QED
        BY <4>1, <4>2
    <3>4. QED
      BY <2>1, <3>2, <3>3, Zenon
  <2>4. CASE \E b \in BOOLEAN : Reg!SetAutomaticRegistration(b)
    BY <2>1, <2>4, Zenon DEF Reg!SetAutomaticRegistration
  <2>5. QED
    BY <2>2, <2>3, <2>4
<1>3. Held'
  BY <1>1, MapStays DEF LoggersInv, Held
<1>4. Settings'
  BY <1>1, <1>2 DEF LoggersInv, Settings
<1>5. Objects' /\ Fresh'
  BY <1>1 DEF LoggersInv, Objects, Fresh
<1>6. Named' /\ Given'
  BY <1>1 DEF LoggersInv, Named, Given, Reached
<1>7. QED
  BY <1>3, <1>4, <1>5, <1>6 DEF LoggersInv
------------------------------------------------------------------------------
(* What the registry tells all its loggers.                                *)

LEMMA InAllIs ==
    ASSUME RegistryParameters, LoggersInv, NEW new, rg_obj' = Reg!InAll(new)
    PROVE  /\ rg_obj' = [l \in rg_Loggers |-> rg_obj'[l]]
           /\ \A l \in Reg!Registered : rg_obj'[l] = new[l]
           /\ \A l \in rg_Loggers \ Reg!Registered : rg_obj'[l] = rg_obj[l]
<1>1. Reg!Registered \subseteq rg_Loggers
  BY HeldIsTouched DEF LoggersInv
<1>2. QED
  BY <1>1 DEF Reg!InAll

\* Of the loggers in the map one setting changes.
LEMMA SettingOfAll ==
    ASSUME RegistryParameters, LoggersInv, Settings',
           rg_obj' = [l \in rg_Loggers |-> rg_obj'[l]], rg_since' = rg_since,
           \A l \in Reg!Registered : LoggerSound(rg_obj'[l], rg_since[l]) /\ rg_obj'[l].name = rg_obj[l].name,
           \A l \in rg_Loggers \ Reg!Registered : rg_obj'[l] = rg_obj[l],
           \A l \in rg_inTouch : Reached(rg_obj[l]) =>
                              /\ rg_obj'[l].handler = rg_err_handler_'
                              /\ rg_obj'[l].flush = rg_flush_level_'
                              /\ Room(rg_obj'[l]) = rg_backtrace_n_messages_',
           Reg!Call, UNCHANGED <<rg_made, rg_loggers_, rg_default_logger_, rg_inTouch, rg_renamed>>
    PROVE  LoggersInv'
<1>1. rg_since' = [l \in rg_Loggers |-> rg_since'[l]] /\ \A l \in rg_Loggers : rg_since'[l] = rg_since[l]
  BY DEF LoggersInv, Objects
<1>2. \A l \in Reg!Registered : LoggerSound(rg_obj'[l], rg_since'[l])
  OBVIOUS
<1>3. \A l \in rg_inTouch : /\ rg_obj'[l].handler = rg_err_handler_'
                            /\ rg_obj'[l].flush = rg_flush_level_'
                            /\ Room(rg_obj'[l]) = rg_backtrace_n_messages_'
  BY Zenon DEF LoggersInv, Given
<1>4. QED
  BY <1>1, <1>2, <1>3, AllLoggers

LEMMA SetFormatterKeeps ==
    ASSUME RegistryParameters, LoggersInv, NEW f \in rg_Formatters, Reg!SetFormatter(f)
    PROVE  LoggersInv'
<1>1. /\ rg_formatter_' = f /\ Reg!Call
      /\ UNCHANGED <<rg_obj, rg_made, rg_loggers_, rg_default_logger_, rg_log_levels_, rg_global_log_level_,
                     rg_flush_level_, rg_err_handler_, rg_automatic_registration_, rg_backtrace_n_messages_,
                     rg_flusher, rg_since, rg_inTouch, rg_renamed>>
  BY DEF Reg!SetFormatter, Reg!history
<1>2. Settings'
  BY <1>1 DEF LoggersInv, Settings
<1>3. rg_made \subseteq rg_made' /\ rg_made' = rg_made
  BY <1>1
<1>4. /\ rg_loggers_' \in [Reg!Names -> rg_made \cup {NoLogger}]
      /\ rg_default_logger_' \in rg_made \cup {NoLogger} /\ Reg!Registered' = Reg!Registered /\ MapNamed'
  BY <1>1, <1>3, MapKept
<1>5. rg_inTouch' \subseteq rg_inTouch /\ rg_inTouch' \subseteq Reg!Registered'
  BY <1>1, <1>4 DEF LoggersInv, Held
<1>6. QED
  BY <1>1, <1>2, <1>4, <1>5, MapChanges

LEMMA SetErrorHandlerKeeps ==
    ASSUME RegistryParameters, LoggersInv, NEW h \in rg_Handlers, Reg!SetErrorHandler(h)
    PROVE  LoggersInv'
<1> PICK new : new = [l \in rg_Loggers |-> [rg_obj[l] EXCEPT !.handler = h]]
  OBVIOUS
<1>1. /\ Reg!Registered \subseteq rg_Loggers /\ rg_inTouch \subseteq Reg!Registered
      /\ \A l \in rg_Loggers : LoggerSound(rg_obj[l], rg_since[l]) /\ Object(rg_obj[l])
  BY HeldIsTouched, ObjectOf DEF LoggersInv, Held
<1>2. /\ rg_obj' = [l \in rg_Loggers |-> rg_obj'[l]]
      /\ \A l \in Reg!Registered : rg_obj'[l] = new[l]
      /\ \A l \in rg_Loggers \ Reg!Registered : rg_obj'[l] = rg_obj[l]
  BY InAllIs DEF Reg!SetErrorHandler
<1>3. /\ rg_err_handler_' = h /\ Reg!Call
      /\ UNCHANGED <<rg_made, rg_loggers_, rg_default_logger_, rg_log_levels_, rg_global_log_level_, rg_flush_level_,
                     rg_formatter_, rg_automatic_registration_, rg_backtrace_n_messages_, rg_flusher, rg_since, rg_inTouch, rg_renamed>>
  BY DEF Reg!SetErrorHandler, Reg!history
<1>4. Settings'
  BY <1>3 DEF LoggersInv, Settings
<1>5. ASSUME NEW l \in Reg!Registered
      PROVE  /\ LoggerSound(rg_obj'[l], rg_since[l]) /\ rg_obj'[l].name = rg_obj[l].name
             /\ rg_obj'[l].handler = h
             /\ rg_obj'[l].flush = rg_obj[l].flush /\ Room(rg_obj'[l]) = Room(rg_obj[l])
  <2> PICK o, s : o = rg_obj[l] /\ s = rg_since[l]
    OBVIOUS
  <2> PICK r : r = [o EXCEPT !.handler = h]
    OBVIOUS
  <2>1. LoggerSound(o, s) /\ Object(o) /\ rg_obj'[l] = r
    BY <1>1, <1>2
  <2>2. LoggerSound([o EXCEPT !.handler = h], s)
    BY <2>1, SetIsSound
  <2>3. /\ r.name = o.name /\ r.handler = h /\ r.flush = o.flush
        /\ r.ring = o.ring /\ r.tracing = o.tracing
    BY <2>1 DEF Object
  <2>4. QED
    BY <2>1, <2>2, <2>3 DEF Room
<1>6. \A l \in rg_inTouch : Reached(rg_obj[l]) =>
         /\ rg_obj'[l].handler = rg_err_handler_'
         /\ rg_obj'[l].flush = rg_flush_level_' /\ Room(rg_obj'[l]) = rg_backtrace_n_messages_'
  BY <1>1, <1>3, <1>5 DEF Reached
<1>7. QED
  BY <1>2, <1>3, <1>4, <1>5, <1>6, SettingOfAll

LEMMA FlushOnKeeps ==
    ASSUME RegistryParameters, LoggersInv, NEW v \in rg_LevelsUsed, Reg!FlushOn(v)
    PROVE  LoggersInv'
<1> PICK new : new = [l \in rg_Loggers |-> [rg_obj[l] EXCEPT !.flush = v]]
  OBVIOUS
<1>0. v \in Reg!trace..Reg!off
  BY DEF RegistryParameters
<1>1. /\ Reg!Registered \subseteq rg_Loggers /\ rg_inTouch \subseteq Reg!Registered
      /\ \A l \in rg_Loggers : LoggerSound(rg_obj[l], rg_since[l]) /\ Object(rg_obj[l])
  BY HeldIsTouched, ObjectOf DEF LoggersInv, Held
<1>2. /\ rg_obj' = [l \in rg_Loggers |-> rg_obj'[l]]
      /\ \A l \in Reg!Registered : rg_obj'[l] = new[l]
      /\ \A l \in rg_Loggers \ Reg!Registered : rg_obj'[l] = rg_obj[l]
  BY InAllIs DEF Reg!FlushOn
<1>3. /\ rg_flush_level_' = v /\ Reg!Call
      /\ UNCHANGED <<rg_made, rg_loggers_, rg_default_logger_, rg_log_levels_, rg_global_log_level_, rg_formatter_,
                     rg_err_handler_, rg_automatic_registration_, rg_backtrace_n_messages_, rg_flusher, rg_since, rg_inTouch, rg_renamed>>
  BY DEF Reg!FlushOn, Reg!history
<1>4. Settings'
  BY <1>0, <1>3 DEF LoggersInv, Settings
<1>5. ASSUME NEW l \in Reg!Registered
      PROVE  /\ LoggerSound(rg_obj'[l], rg_since[l]) /\ rg_obj'[l].name = rg_obj[l].name
             /\ rg_obj'[l].handler = rg_obj[l].handler
             /\ rg_obj'[l].flush = v /\ Room(rg_obj'[l]) = Room(rg_obj[l])
  <2> PICK o, s : o = rg_obj[l] /\ s = rg_since[l]
    OBVIOUS
  <2> PICK r : r = [o EXCEPT !.flush = v]
    OBVIOUS
  <2>1. LoggerSound(o, s) /\ Object(o) /\ rg_obj'[l] = r
    BY <1>1, <1>2
  <2>2. LoggerSound([o EXCEPT !.flush = v], s)
    BY <2>1, <1>0, SetIsSound
  <2>3. /\ r.name = o.name /\ r.handler = o.handler /\ r.flush = v
        /\ r.ring = o.ring /\ r.tracing = o.tracing
    BY <2>1 DEF Object
  <2>4. QED
    BY <2>1, <2>2, <2>3 DEF Room
<1>6. \A l \in rg_inTouch : Reached(rg_obj[l]) =>
         /\ rg_obj'[l].handler = rg_err_handler_'
         /\ rg_obj'[l].flush = rg_flush_level_' /\ Room(rg_obj'[l]) = rg_backtrace_n_messages_'
  BY <1>1, <1>3, <1>5 DEF Reached
<1>7. QED
  BY <1>2, <1>3, <1>4, <1>5, <1>6, SettingOfAll

LEMMA SetLevelKeeps ==
    ASSUME RegistryParameters, LoggersInv, NEW v \in rg_LevelsUsed, Reg!SetLevel(v)
    PROVE  LoggersInv'
<1> PICK new : new = [l \in rg_Loggers |-> [rg_obj[l] EXCEPT !.level = v]]
  OBVIOUS
<1>0. v \in Reg!trace..Reg!off
  BY DEF RegistryParameters
<1>1. /\ Reg!Registered \subseteq rg_Loggers /\ rg_inTouch \subseteq Reg!Registered
      /\ \A l \in rg_Loggers : LoggerSound(rg_obj[l], rg_since[l]) /\ Object(rg_obj[l])
  BY HeldIsTouched, ObjectOf DEF LoggersInv, Held
<1>2. /\ rg_obj' = [l \in rg_Loggers |-> rg_obj'[l]]
      /\ \A l \in Reg!Registered : rg_obj'[l] = new[l]
      /\ \A l \in rg_Loggers \ Reg!Registered : rg_obj'[l] = rg_obj[l]
  BY InAllIs DEF Reg!SetLevel
<1>3. /\ rg_global_log_level_' = v /\ Reg!Call
      /\ UNCHANGED <<rg_made, rg_loggers_, rg_default_logger_, rg_log_levels_, rg_flush_level_, rg_formatter_,
                     rg_err_handler_, rg_automatic_registration_, rg_backtrace_n_messages_, rg_flusher, rg_since, rg_inTouch, rg_renamed>>
  BY DEF Reg!SetLevel, Reg!history
<1>4. Settings'
  BY <1>0, <1>3 DEF LoggersInv, Settings
<1>5. ASSUME NEW l \in Reg!Registered
      PROVE  /\ LoggerSound(rg_obj'[l], rg_since[l]) /\ rg_obj'[l].name = rg_obj[l].name
             /\ rg_obj'[l].handler = rg_obj[l].handler
             /\ rg_obj'[l].flush = rg_obj[l].flush /\ Room(rg_obj'[l]) = Room(rg_obj[l])
  <2> PICK o, s : o = rg_obj[l] /\ s = rg_since[l]
    OBVIOUS
  <2> PICK r : r = [o EXCEPT !.level = v]
    OBVIOUS
  <2>1. LoggerSound(o, s) /\ Object(o) /\ rg_obj'[l] = r
    BY <1>1, <1>2
  <2>2. LoggerSound([o EXCEPT !.level = v], s)
    BY <2>1, <1>0, SetIsSound
  <2>3. /\ r.name = o.name /\ r.handler = o.handler /\ r.flush = o.flush
        /\ r.ring = o.ring /\ r.tracing = o.tracing
    BY <2>1 DEF Object
  <2>4. QED
    BY <2>1, <2>2, <2>3 DEF Room
<1>6. \A l \in rg_inTouch : Reached(rg_obj[l]) =>
         /\ rg_obj'[l].handler = rg_err_handler_'
         /\ rg_obj'[l].flush = rg_flush_level_' /\ Room(rg_obj'[l]) = rg_backtrace_n_messages_'
  BY <1>1, <1>3, <1>5 DEF Reached
<1>7. QED
  BY <1>2, <1>3, <1>4, <1>5, <1>6, SettingOfAll

LEMMA EnableBacktraceKeeps ==
    ASSUME RegistryParameters, LoggersInv, NEW n \in rg_TraceSizes, Reg!EnableBacktrace(n)
    PROVE  LoggersInv'
<1> PICK new : new = [l \in rg_Loggers |-> Reg!Traced(rg_obj[l], n)]
  OBVIOUS
<1>1. /\ Reg!Registered \subseteq rg_Loggers /\ rg_inTouch \subseteq Reg!Registered /\ n \in Nat
      /\ \A l \in rg_Loggers : Object(rg_obj[l])
  BY HeldIsTouched, ObjectOf DEF LoggersInv, Held, RegistryParameters
<1>2. /\ rg_obj' = [l \in rg_Loggers |-> rg_obj'[l]]
      /\ \A l \in Reg!Registered : rg_obj'[l] = new[l]
      /\ \A l \in rg_Loggers \ Reg!Registered : rg_obj'[l] = rg_obj[l]
  BY InAllIs DEF Reg!EnableBacktrace
<1>3. /\ rg_backtrace_n_messages_' = n /\ Reg!Call
      /\ UNCHANGED <<rg_made, rg_loggers_, rg_default_logger_, rg_log_levels_, rg_global_log_level_, rg_flush_level_,
                     rg_formatter_, rg_err_handler_, rg_automatic_registration_, rg_flusher, rg_inTouch, rg_renamed>>
  BY DEF Reg!EnableBacktrace
<1>4. Settings'
  BY <1>3 DEF LoggersInv, Settings
<1>5. /\ rg_since' = [l \in rg_Loggers |-> rg_since'[l]]
      /\ \A l \in Reg!Registered : rg_since'[l] = <<>>
      /\ \A l \in rg_Loggers \ Reg!Registered : rg_since'[l] = rg_since[l]
  BY <1>1 DEF Reg!EnableBacktrace, Reg!Empties
<1>6. ASSUME NEW l \in Reg!Registered
      PROVE  /\ LoggerSound(rg_obj'[l], <<>>) /\ rg_obj'[l].name = rg_obj[l].name
             /\ rg_obj'[l].handler = rg_obj[l].handler
             /\ rg_obj'[l].flush = rg_obj[l].flush /\ Room(rg_obj'[l]) = n
  <2> PICK o : o = rg_obj[l]
    OBVIOUS
  <2> PICK r : r = Reg!Traced(o, n)
    OBVIOUS
  <2>1. Object(o) /\ rg_obj'[l] = r
    BY <1>1, <1>2
  <2>2. LoggerSound(r, <<>>) /\ r.tracing /\ r.ring.max = n + 1
    BY <1>1, <2>1, TracedIsSound
  <2>3. r.name = o.name /\ r.handler = o.handler /\ r.flush = o.flush
    BY <2>1 DEF Reg!Traced, Object
  <2>4. Room(r) = n
    BY <1>1, <2>2 DEF Room
  <2>5. QED
    BY <2>1, <2>2, <2>3, <2>4
<1>7. \A l \in rg_inTouch :
         /\ rg_obj'[l].handler = rg_err_handler_'
         /\ rg_obj'[l].flush = rg_flush_level_' /\ Room(rg_obj'[l]) = rg_backtrace_n_messages_'
  BY <1>1, <1>3, <1>6 DEF Reached, LoggersInv, Given
<1>8. \A l \in Reg!Registered : LoggerSound(rg_obj'[l], rg_since'[l]) /\ rg_obj'[l].name = rg_obj[l].name
  BY <1>5, <1>6
<1>9. QED
  BY <1>2, <1>3, <1>4, <1>5, <1>7, <1>8, AllLoggers

LEMMA DisableBacktraceKeeps ==
    ASSUME RegistryParameters, LoggersInv, Reg!DisableBacktrace
    PROVE  LoggersInv'
<1> PICK new : new = [l \in rg_Loggers |-> Reg!Untraced(rg_obj[l])]
  OBVIOUS
<1>1. /\ Reg!Registered \subseteq rg_Loggers /\ rg_inTouch \subseteq Reg!Registered
      /\ \A l \in rg_Loggers : LoggerSound(rg_obj[l], rg_since[l]) /\ Object(rg_obj[l])
  BY HeldIsTouched, ObjectOf DEF LoggersInv, Held
<1>2. /\ rg_obj' = [l \in rg_Loggers |-> rg_obj'[l]]
      /\ \A l \in Reg!Registered : rg_obj'[l] = new[l]
      /\ \A l \in rg_Loggers \ Reg!Registered : rg_obj'[l] = rg_obj[l]
  BY InAllIs DEF Reg!DisableBacktrace
<1>3. /\ rg_backtrace_n_messages_' = 0 /\ Reg!Call
      /\ UNCHANGED <<rg_made, rg_loggers_, rg_default_logger_, rg_log_levels_, rg_global_log_level_, rg_flush_level_,
                     rg_formatter_, rg_err_handler_, rg_automatic_registration_, rg_flusher, rg_since, rg_inTouch,
                     rg_renamed>>
  BY DEF Reg!DisableBacktrace, Reg!history
<1>4. Settings'
  BY <1>3 DEF LoggersInv, Settings
<1>5. ASSUME NEW l \in Reg!Registered
      PROVE  /\ LoggerSound(rg_obj'[l], rg_since[l]) /\ rg_obj'[l].name = rg_obj[l].name
             /\ rg_obj'[l].handler = rg_obj[l].handler
             /\ rg_obj'[l].flush = rg_obj[l].flush /\ Room(rg_obj'[l]) = 0
  <2> PICK o, s : o = rg_obj[l] /\ s = rg_since[l]
    OBVIOUS
  <2> PICK r : r = Reg!Untraced(o)
    OBVIOUS
  <2>1. LoggerSound(o, s) /\ Object(o) /\ rg_obj'[l] = r
    BY <1>1, <1>2
  <2>2. LoggerSound(r, s) /\ r.tracing = FALSE
    BY <2>1, UntracedIsSound
  <2>3. r.name = o.name /\ r.handler = o.handler /\ r.flush = o.flush
    BY <2>1 DEF Reg!Untraced, Object
  <2>4. QED
    BY <2>1, <2>2, <2>3 DEF Room
<1>6. \A l \in rg_inTouch : Reached(rg_obj[l]) =>
         /\ rg_obj'[l].handler = rg_err_handler_'
         /\ rg_obj'[l].flush = rg_flush_level_' /\ Room(rg_obj'[l]) = rg_backtrace_n_messages_'
  BY <1>1, <1>3, <1>5 DEF Reached
<1>7. QED
  BY <1>2, <1>3, <1>4, <1>5, <1>6, SettingOfAll

LEMMA LoadLevelsKeeps ==
    ASSUME RegistryParameters, LoggersInv, NEW tokens \in rg_Inputs, Reg!LoadLevels(tokens)
    PROVE  LoggersInv'
<1> PICK levels, global : levels = Reg!Levels(tokens) /\ global = Reg!GlobalLevel(tokens)
  OBVIOUS
<1>0. /\ DOMAIN levels \subseteq STRING /\ \A n \in DOMAIN levels : levels[n] \in Reg!trace..Reg!off
      /\ global = Reg!NoLevel \/ global \in Reg!trace..Reg!off
  BY LevelsOfText DEF RegistryParameters
<1>1. /\ Reg!Registered \subseteq rg_Loggers /\ rg_inTouch \subseteq Reg!Registered
      /\ \A l \in rg_Loggers : LoggerSound(rg_obj[l], rg_since[l]) /\ Object(rg_obj[l])
  BY HeldIsTouched, ObjectOf DEF LoggersInv, Held
<1>2. /\ rg_log_levels_' = levels /\ Reg!Call
      /\ rg_global_log_level_' = IF global = Reg!NoLevel THEN rg_global_log_level_ ELSE global
      /\ UNCHANGED <<rg_made, rg_loggers_, rg_default_logger_, rg_flush_level_, rg_formatter_, rg_err_handler_,
                     rg_automatic_registration_, rg_backtrace_n_messages_, rg_flusher, rg_since, rg_inTouch, rg_renamed>>
  BY DEF Reg!LoadLevels, Reg!SetLevels, Reg!history
<1>3. Settings'
  BY <1>0, <1>2 DEF LoggersInv, Settings
<1> DEFINE key(l) == CHOOSE n \in Reg!Names : rg_loggers_[n] = l
           level(l) == IF key(l) \in DOMAIN levels THEN levels[key(l)]
                       ELSE IF global = Reg!NoLevel THEN rg_obj[l].level ELSE global
<1>4. rg_obj' = [l \in rg_Loggers |-> IF l \notin Reg!Registered THEN rg_obj[l]
                                      ELSE [rg_obj[l] EXCEPT !.level = level(l)]]
  BY DEF Reg!LoadLevels, Reg!SetLevels
<1>5. ASSUME NEW l \in Reg!Registered
      PROVE  /\ LoggerSound(rg_obj'[l], rg_since[l]) /\ rg_obj'[l].name = rg_obj[l].name
             /\ rg_obj'[l].handler = rg_obj[l].handler
             /\ rg_obj'[l].flush = rg_obj[l].flush /\ Room(rg_obj'[l]) = Room(rg_obj[l])
  <2> HIDE DEF level
  <2> PICK o, s, v : o = rg_obj[l] /\ s = rg_since[l] /\ v = level(l)
    OBVIOUS
  <2> PICK r : r = [o EXCEPT !.level = v]
    OBVIOUS
  <2>1. LoggerSound(o, s) /\ Object(o) /\ rg_obj'[l] = r
    BY <1>1, <1>4
  <2>2. v \in Reg!trace..Reg!off
    <3>1. o.level \in Reg!trace..Reg!off
      BY <2>1 DEF Object
    <3>2. v = level(l) /\ o = rg_obj[l]
      OBVIOUS
    <3>3. QED
      BY <3>1, <3>2, <1>0 DEF level
  <2>3. LoggerSound([o EXCEPT !.level = v], s)
    BY <2>1, <2>2, SetIsSound
  <2>4. /\ r.name = o.name /\ r.handler = o.handler /\ r.flush = o.flush
        /\ r.ring = o.ring /\ r.tracing = o.tracing
    BY <2>1 DEF Object
  <2>5. QED
    BY <2>1, <2>3, <2>4 DEF Room
<1>6. \A l \in rg_inTouch : Reached(rg_obj[l]) =>
         /\ rg_obj'[l].handler = rg_err_handler_'
         /\ rg_obj'[l].flush = rg_flush_level_' /\ Room(rg_obj'[l]) = rg_backtrace_n_messages_'
  BY <1>1, <1>2, <1>5 DEF Reached
<1>7. /\ rg_obj' = [l \in rg_Loggers |-> rg_obj'[l]]
      /\ \A l \in rg_Loggers \ Reg!Registered : rg_obj'[l] = rg_obj[l]
  BY <1>4
<1> HIDE DEF key, level
<1>8. QED
  BY <1>2, <1>3, <1>5, <1>6, <1>7, SettingOfAll
------------------------------------------------------------------------------
LEMMA LoggersKeep ==
    ASSUME RegistryParameters, LoggersInv, [Reg!Next]_(Reg!vars)
    PROVE  LoggersInv'
<1>1. CASE Reg!Next
  <2>1. ASSUME NEW l \in rg_Loggers, Reg!LoggerStep(l) PROVE LoggersInv'
    BY <2>1, MakeKeeps, DisableBacktraceOfKeeps, DumpBacktraceKeeps, FlushKeeps,
       RegisterLoggerKeeps, InitializeLoggerKeeps, CreateLoggerKeeps, LogToKeeps, SetOneKeeps, SetFormatterOfKeeps,
       LogKeeps, EnableBacktraceOfKeeps, CloneKeeps, SwapKeeps, Zenon DEF Reg!LoggerStep
  <2>2. ASSUME Reg!RegistryStep PROVE LoggersInv'
    <3>1. ASSUME NEW v \in rg_LevelsUsed, Reg!LogDefault(v) PROVE LoggersInv'
      <4>1. rg_default_logger_ \in rg_Loggers
        BY <3>1 DEF Reg!LogDefault, LoggersInv, Held
      <4>2. QED
        BY <3>1, <4>1, LogKeeps DEF Reg!LogDefault
    <3>2. QED
      BY <2>2, <3>1, SetDefaultLoggerKeeps, SetFormatterKeeps, EnableBacktraceKeeps, SetLevelKeeps,
         FlushOnKeeps, SetErrorHandlerKeeps, LoadLevelsKeeps, DropKeeps, DropAllKeeps,
         FlusherKeeps, DisableBacktraceKeeps, Zenon DEF Reg!RegistryStep
  <2>3. QED
    BY <1>1, <2>1, <2>2 DEF Reg!Next
<1>2. CASE UNCHANGED Reg!vars
  <2>1. UNCHANGED <<rg_obj, rg_made, rg_loggers_, rg_default_logger_, rg_since, rg_inTouch, rg_renamed, rg_log_levels_,
                    rg_global_log_level_, rg_flush_level_, rg_formatter_, rg_err_handler_, rg_calls,
                    rg_automatic_registration_, rg_backtrace_n_messages_, rg_flusher>>
    BY <1>2 DEF Reg!vars, Reg!settings, Reg!io, Reg!history
  <2>2. Held' /\ Settings'
    BY <2>1 DEF LoggersInv, Held, Reg!Registered, Settings
  <2>3. Objects' /\ Fresh' /\ Named' /\ Given'
    BY <2>1 DEF LoggersInv, Objects, Fresh, Named, Given, Reached
  <2>4. QED
    BY <2>2, <2>3 DEF LoggersInv
<1>3. QED
  BY <1>1, <1>2
------------------------------------------------------------------------------
(* The sinks: which logger has which, what is set in them and what they    *)
(* hold.                                                                   *)

SameSinks == \A k \in rg_Loggers : rg_obj'[k].sink = rg_obj[k].sink

SinksInv == Formatted /\ Unflushed

LEMMA OneSink ==
    ASSUME LoggersInv, NEW l \in rg_Loggers, NEW r, r.sink = rg_obj[l].sink,
           rg_obj' = [rg_obj EXCEPT ![l] = r]
    PROVE  SameSinks
<1>1. rg_obj = [k \in rg_Loggers |-> rg_obj[k]]
  BY DEF LoggersInv, Objects
<1>2. rg_obj'[l] = r /\ \A k \in rg_Loggers \ {l} : rg_obj'[k] = rg_obj[k]
  BY <1>1
<1>3. QED
  BY <1>2 DEF SameSinks

\* The settings a logger has by itself leave it its sink.
LEMMA SinkIsKept ==
    ASSUME NEW o, Object(o)
    PROVE  /\ \A v : /\ [o EXCEPT !.level = v].sink = o.sink /\ [o EXCEPT !.flush = v].sink = o.sink
                     /\ [o EXCEPT !.handler = v].sink = o.sink /\ [o EXCEPT !.ring = v].sink = o.sink
           /\ Reg!Untraced(o).sink = o.sink /\ \A n : Reg!Traced(o, n).sink = o.sink
BY DEF Object, Reg!Untraced, Reg!Traced

LEMMA SinksStay ==
    ASSUME RegistryParameters, RegInv, LoggersInv', SameSinks, rg_made \subseteq rg_made',
           rg_unflushed' \subseteq rg_unflushed \cup Reg!SinksOf(rg_made),
           rg_formatters' \in [rg_Loggers -> rg_Formatters],
           \A l \in rg_inTouch' : rg_formatters'[rg_obj[l].sink] = rg_formatter_'
    PROVE  SinksInv'
<1>1. rg_made' \subseteq rg_Loggers /\ rg_inTouch' \subseteq rg_Loggers
  <2>1. rg_made' \subseteq rg_Loggers /\ rg_inTouch' \subseteq Reg!Registered'
        /\ rg_loggers_' \in [Reg!Names -> rg_made' \cup {NoLogger}]
    BY DEF LoggersInv, Held
  <2>2. QED
    BY <2>1 DEF Reg!Registered
<1>2. Formatted'
  BY <1>1 DEF Formatted, SameSinks
<1>3. Unflushed'
  BY <1>1 DEF RegInv, Unflushed, SameSinks, Reg!SinksOf
<1>4. QED
  BY <1>2, <1>3 DEF SinksInv

\* Nobody is given a formatter.
LEMMA QuietSinks ==
    ASSUME RegistryParameters, RegInv, LoggersInv', SameSinks, rg_made \subseteq rg_made',
           rg_unflushed' \subseteq rg_unflushed \cup Reg!SinksOf(rg_made),
           UNCHANGED <<rg_formatters, rg_formatter_>>, rg_inTouch' \subseteq rg_inTouch
    PROVE  SinksInv'
BY SinksStay DEF RegInv, Formatted

\* Some are given the formatter of the registry.
LEMMA GivenSinks ==
    ASSUME RegistryParameters, RegInv, LoggersInv', SameSinks, rg_made \subseteq rg_made',
           NEW f \in rg_Formatters, NEW ls \in SUBSET rg_Loggers, Reg!FormatWith(f, ls), rg_formatter_' = f,
           f = rg_formatter_ \/ rg_inTouch \subseteq ls, rg_inTouch' \subseteq rg_inTouch \cup ls
    PROVE  SinksInv'
<1>1. \A l \in rg_Loggers : rg_obj[l].sink \in rg_Loggers
  BY ObjectOf DEF Object, RegInv
<1>2. /\ rg_formatters' = [s \in rg_Loggers |-> IF s \in Reg!SinksOf(ls) THEN f ELSE rg_formatters[s]]
      /\ rg_unflushed' = rg_unflushed
  BY DEF Reg!FormatWith, Reg!Silent
<1>3. rg_formatters' \in [rg_Loggers -> rg_Formatters]
  BY <1>2 DEF RegInv, Formatted
<1>4. rg_inTouch \subseteq rg_Loggers
  BY HeldIsTouched DEF RegInv, LoggersInv
<1>5. ASSUME NEW l \in rg_inTouch' PROVE rg_formatters'[rg_obj[l].sink] = f
  <2>1. l \in rg_Loggers /\ rg_obj[l].sink \in rg_Loggers
    BY <1>1, <1>4
  <2>2. CASE l \in ls
    <3>1. rg_obj[l].sink \in Reg!SinksOf(ls)
      BY <2>2 DEF Reg!SinksOf
    <3>2. QED
      BY <2>1, <3>1, <1>2
  <2>3. CASE l \in rg_inTouch /\ f = rg_formatter_
    BY <2>1, <2>3, <1>2 DEF RegInv, Formatted
  <2>4. QED
    BY <2>2, <2>3
<1>6. QED
  BY <1>2, <1>3, <1>5, SinksStay

\* A logger's messages are in its sink, and it in what the sinks hold.
LEMMA SinksOfLog ==
    ASSUME RegistryParameters, RegInv, LoggersInv', NEW l \in rg_Loggers,
           Reg!DumpBacktrace(l) \/ \E v \in rg_LevelsUsed : Reg!Log(l, v)
    PROVE  SinksInv'
<1> PICK o : o = rg_obj[l]
  OBVIOUS
<1>1. LoggersInv /\ Object(o)
  BY ObjectOf DEF RegInv
<1>2. /\ l \in rg_made /\ rg_made' = rg_made /\ UNCHANGED <<rg_formatters, rg_formatter_, rg_inTouch>>
      /\ \E messages : Reg!SinkIt(l, messages)
      /\ rg_obj' = rg_obj \/ \E ring : rg_obj' = [rg_obj EXCEPT ![l] = [o EXCEPT !.ring = ring]]
  <2>1. CASE Reg!DumpBacktrace(l)
    BY <2>1 DEF Reg!DumpBacktrace, Reg!SinkIt, Reg!settings
  <2>2. ASSUME NEW v \in rg_LevelsUsed, Reg!Log(l, v)
        PROVE  /\ l \in rg_made /\ rg_made' = rg_made /\ UNCHANGED <<rg_formatters, rg_formatter_, rg_inTouch>>
               /\ \E messages : Reg!SinkIt(l, messages)
               /\ rg_obj' = rg_obj \/ \E ring : rg_obj' = [rg_obj EXCEPT ![l] = [o EXCEPT !.ring = ring]]
    BY <2>2 DEF Reg!Log, Reg!SinkIt, Reg!settings
  <2>3. QED
    BY <2>1, <2>2
<1>3. SameSinks
  <2>1. CASE rg_obj' = rg_obj
    BY <2>1 DEF SameSinks
  <2>2. CASE \E ring : rg_obj' = [rg_obj EXCEPT ![l] = [o EXCEPT !.ring = ring]]
    BY <2>2, <1>1, SinkIsKept, OneSink
  <2>3. QED
    BY <1>2, <2>1, <2>2
<1>4. Reg!SinksOf({l}) \subseteq Reg!SinksOf(rg_made)
  BY <1>2 DEF Reg!SinksOf
<1>5. rg_unflushed' \subseteq rg_unflushed \cup Reg!SinksOf(rg_made)
  BY <1>2, <1>4 DEF Reg!SinkIt
<1>6. QED
  BY <1>2, <1>3, <1>5, QuietSinks

\* A copy has the sink of its original.
LEMMA ClonedSinks ==
    ASSUME RegistryParameters, RegInv, LoggersInv', NEW l \in rg_Loggers, NEW copy \in rg_Loggers,
           Reg!Clone(l, copy)
    PROVE  SinksInv'
<1>1. /\ l \in rg_made /\ copy \notin rg_made /\ rg_made' = rg_made \cup {copy} /\ rg_inTouch' = rg_inTouch
      /\ rg_obj' = [rg_obj EXCEPT ![copy] = [rg_obj[l] EXCEPT !.name = rg_Name[copy]]]
      /\ UNCHANGED <<rg_unflushed, rg_formatters, rg_formatter_>>
  BY DEF Reg!Clone, Reg!Quiet, Reg!Silent, Reg!settings
<1>2. \A k \in rg_Loggers \ {copy} : rg_obj'[k] = rg_obj[k]
  BY <1>1 DEF RegInv, LoggersInv, Objects
<1>3. rg_made \subseteq rg_Loggers \ {copy} /\ rg_inTouch \subseteq rg_made
  BY <1>1, HeldIsTouched DEF RegInv, LoggersInv
<1>4. Formatted'
  BY <1>1, <1>2, <1>3 DEF RegInv, Formatted
<1>5. Unflushed'
  BY <1>1, <1>2, <1>3 DEF RegInv, Unflushed, Reg!SinksOf
<1>6. QED
  BY <1>4, <1>5 DEF SinksInv

\* Two exchange their sinks, and both are made.
LEMMA SwappedSinks ==
    ASSUME RegistryParameters, RegInv, LoggersInv', NEW l \in rg_Loggers, NEW k \in rg_Loggers, Reg!Swap(l, k)
    PROVE  SinksInv'
<1>1. /\ l \in rg_made /\ k \in rg_made /\ l # k /\ rg_made' = rg_made /\ rg_inTouch' = rg_inTouch \ {l, k}
      /\ rg_obj' = [rg_obj EXCEPT ![l] = rg_obj[k], ![k] = rg_obj[l]]
      /\ UNCHANGED <<rg_unflushed, rg_formatters, rg_formatter_>>
  BY DEF Reg!Swap, Reg!Quiet, Reg!Silent, Reg!settings
<1>2. rg_obj = [m \in rg_Loggers |-> rg_obj[m]]
  BY DEF RegInv, LoggersInv, Objects
<1>3. /\ rg_obj'[l] = rg_obj[k] /\ rg_obj'[k] = rg_obj[l]
      /\ \A m \in rg_Loggers \ {l, k} : rg_obj'[m] = rg_obj[m]
  BY <1>1, <1>2
<1>4. rg_made \subseteq rg_Loggers /\ rg_inTouch \subseteq rg_made
  BY HeldIsTouched DEF RegInv, LoggersInv
<1>5. Formatted'
  BY <1>1, <1>3, <1>4 DEF RegInv, Formatted
<1>6. Unflushed'
  <2>1. SUFFICES ASSUME NEW s \in rg_unflushed PROVE \E m \in rg_made : rg_obj'[m].sink = s
    BY <1>1 DEF Unflushed, Reg!SinksOf
  <2>2. PICK m \in rg_made : rg_obj[m].sink = s
    BY DEF RegInv, Unflushed, Reg!SinksOf
  <2>3. CASE m = l
    BY <2>2, <2>3, <1>1, <1>3
  <2>4. CASE m = k
    BY <2>2, <2>4, <1>1, <1>3
  <2>5. CASE m \in rg_Loggers \ {l, k}
    BY <2>2, <2>5, <1>3
  <2>6. QED
    BY <2>3, <2>4, <2>5, <1>4
<1>7. QED
  BY <1>5, <1>6 DEF SinksInv

\* What is set in all the loggers of the map leaves them their sinks.
LEMMA SinksOfAll ==
    ASSUME RegistryParameters, LoggersInv,
           \/ \E n \in rg_TraceSizes : Reg!EnableBacktrace(n)
           \/ \E v \in rg_LevelsUsed : Reg!SetLevel(v) \/ Reg!FlushOn(v)
           \/ \E h \in rg_Handlers : Reg!SetErrorHandler(h)
           \/ \E tokens \in rg_Inputs : Reg!LoadLevels(tokens)
           \/ Reg!DisableBacktrace
    PROVE  SameSinks
<1>1. \A l \in rg_Loggers : Object(rg_obj[l])
  BY ObjectOf
<1>2. ASSUME NEW new, rg_obj' = Reg!InAll(new), \A l \in rg_Loggers : new[l].sink = rg_obj[l].sink
      PROVE  SameSinks
  BY <1>2, InAllIs DEF SameSinks
<1>3. ASSUME NEW n \in rg_TraceSizes, Reg!EnableBacktrace(n) PROVE SameSinks
  <2> PICK new : new = [l \in rg_Loggers |-> Reg!Traced(rg_obj[l], n)]
    OBVIOUS
  <2>1. \A l \in rg_Loggers : new[l].sink = rg_obj[l].sink
    BY <1>1, SinkIsKept
  <2>2. QED
    BY <1>2, <1>3, <2>1 DEF Reg!EnableBacktrace
<1>4. ASSUME NEW v, Reg!SetLevel(v) PROVE SameSinks
  <2> PICK new : new = [l \in rg_Loggers |-> [rg_obj[l] EXCEPT !.level = v]]
    OBVIOUS
  <2>1. \A l \in rg_Loggers : new[l].sink = rg_obj[l].sink
    BY <1>1, SinkIsKept
  <2>2. QED
    BY <1>2, <1>4, <2>1 DEF Reg!SetLevel
<1>5. ASSUME NEW v, Reg!FlushOn(v) PROVE SameSinks
  <2> PICK new : new = [l \in rg_Loggers |-> [rg_obj[l] EXCEPT !.flush = v]]
    OBVIOUS
  <2>1. \A l \in rg_Loggers : new[l].sink = rg_obj[l].sink
    BY <1>1, SinkIsKept
  <2>2. QED
    BY <1>2, <1>5, <2>1 DEF Reg!FlushOn
<1>6. ASSUME NEW h, Reg!SetErrorHandler(h) PROVE SameSinks
  <2> PICK new : new = [l \in rg_Loggers |-> [rg_obj[l] EXCEPT !.handler = h]]
    OBVIOUS
  <2>1. \A l \in rg_Loggers : new[l].sink = rg_obj[l].sink
    BY <1>1, SinkIsKept
  <2>2. QED
    BY <1>2, <1>6, <2>1 DEF Reg!SetErrorHandler
<1>7. ASSUME Reg!DisableBacktrace PROVE SameSinks
  <2> PICK new : new = [l \in rg_Loggers |-> Reg!Untraced(rg_obj[l])]
    OBVIOUS
  <2>1. \A l \in rg_Loggers : new[l].sink = rg_obj[l].sink
    BY <1>1, SinkIsKept
  <2>2. QED
    BY <1>2, <1>7, <2>1 DEF Reg!DisableBacktrace
<1>8. ASSUME NEW tokens, Reg!LoadLevels(tokens) PROVE SameSinks
  <2>1. \A l \in rg_Loggers : rg_obj'[l] = rg_obj[l] \/ \E v : rg_obj'[l] = [rg_obj[l] EXCEPT !.level = v]
    BY <1>8 DEF Reg!LoadLevels, Reg!SetLevels
  <2>2. ASSUME NEW l \in rg_Loggers PROVE rg_obj'[l].sink = rg_obj[l].sink
    <3>1. CASE rg_obj'[l] = rg_obj[l]
      BY <3>1
    <3>2. ASSUME NEW v, rg_obj'[l] = [rg_obj[l] EXCEPT !.level = v] PROVE rg_obj'[l].sink = rg_obj[l].sink
      BY <3>2, <1>1, SinkIsKept
    <3>3. QED
      BY <2>1, <3>1, <3>2
  <2>3. QED
    BY <2>2 DEF SameSinks
<1>9. QED
  BY <1>3, <1>4, <1>5, <1>6, <1>7, <1>8

LEMMA LoggerSinks ==
    ASSUME RegistryParameters, RegInv, LoggersInv', NEW l \in rg_Loggers, Reg!LoggerStep(l)
    PROVE  SinksInv'
<1>i. LoggersInv /\ Settings /\ Held
  BY DEF RegInv, LoggersInv
<1>0. rg_obj[l].sink = rg_obj[l].sink /\ Object(rg_obj[l]) /\ (rg_obj' = rg_obj => SameSinks)
  BY <1>i, ObjectOf DEF SameSinks
<1> PICK o : o = rg_obj[l]
  OBVIOUS
<1>1. CASE Reg!Make(l) \/ Reg!RegisterLogger(l)
  <2>1. /\ rg_obj' = rg_obj /\ Reg!Quiet /\ rg_made \subseteq rg_made' /\ rg_formatter_' = rg_formatter_
        /\ rg_inTouch' \subseteq rg_inTouch
    BY <1>1 DEF Reg!Make, Reg!RegisterLogger, Reg!settings, Reg!history
  <2>2. QED
    BY <2>1, <1>0, QuietSinks DEF Reg!Quiet, Reg!Silent
<1>2. CASE Reg!DisableBacktraceOf(l)
  <2>1. /\ rg_obj' = [rg_obj EXCEPT ![l] = Reg!Untraced(o)] /\ Reg!Quiet /\ rg_made' = rg_made
        /\ rg_formatter_' = rg_formatter_ /\ rg_inTouch' \subseteq rg_inTouch
    BY <1>2 DEF Reg!DisableBacktraceOf, Reg!settings
  <2>2. SameSinks
    BY <2>1, <1>0, <1>i, SinkIsKept, OneSink
  <2>3. QED
    BY <2>1, <2>2, QuietSinks DEF Reg!Quiet, Reg!Silent
<1>3. CASE Reg!DumpBacktrace(l) \/ \E v \in rg_LevelsUsed : Reg!Log(l, v)
  BY <1>3, <1>0, <1>i, SinksOfLog DEF RegInv
<1>4. CASE Reg!Flush(l)
  <2>1. /\ rg_obj' = rg_obj /\ rg_unflushed' \subseteq rg_unflushed /\ rg_made' = rg_made
        /\ UNCHANGED <<rg_formatters, rg_formatter_, rg_inTouch>>
    BY <1>4 DEF Reg!Flush, Reg!settings, Reg!history
  <2>2. QED
    BY <2>1, <1>0, QuietSinks
<1>5. CASE Reg!InitializeLogger(l) \/ Reg!CreateLogger(l) \/ Reg!LogTo(l)
  <2>1. /\ rg_obj' = [rg_obj EXCEPT ![l] = Reg!Initialized(o)] /\ Reg!FormatWith(rg_formatter_, {l})
        /\ rg_made \subseteq rg_made' /\ rg_formatter_' = rg_formatter_ /\ rg_inTouch' \subseteq rg_inTouch \cup {l}
    BY <1>5 DEF Reg!InitializeLogger, Reg!CreateLogger, Reg!LogTo, Reg!StillIn, Reg!settings
  <2>2. LoggerSound(o, rg_since[l])
    BY <1>i, ObjectOf
  <2>3. Reg!Initialized(o).sink = o.sink
    BY <1>i, <2>2, InitializedIsSound DEF RegistryParameters
  <2>4. SameSinks
    BY <2>1, <2>3, <1>i, OneSink
  <2>5. rg_formatter_ \in rg_Formatters /\ {l} \in SUBSET rg_Loggers
    BY <1>i DEF Settings
  <2>6. QED
    BY <2>1, <2>4, <2>5, GivenSinks
<1>6. CASE \/ \E v \in rg_LevelsUsed : Reg!SetOne(l, "level", v) \/ Reg!SetOne(l, "flush", v)
           \/ \E h \in rg_Handlers : Reg!SetOne(l, "handler", h)
  <2>1. PICK field, v : /\ Reg!SetOne(l, field, v) /\ field \in {"level", "flush", "handler"}
    BY <1>6
  <2>2. /\ rg_obj' = [rg_obj EXCEPT ![l] = [o EXCEPT ![field] = v]] /\ Reg!Quiet /\ rg_made' = rg_made
        /\ rg_formatter_' = rg_formatter_ /\ rg_inTouch' \subseteq rg_inTouch
    BY <2>1 DEF Reg!SetOne, Reg!settings
  <2>3. [o EXCEPT ![field] = v].sink = o.sink
    BY <2>1, <1>0 DEF Object
  <2>4. SameSinks
    BY <2>2, <2>3, <1>i, OneSink
  <2>5. QED
    BY <2>2, <2>4, QuietSinks DEF Reg!Quiet, Reg!Silent
<1>7. CASE \E f \in rg_Formatters : Reg!SetFormatterOf(l, f)
  <2>1. PICK f \in rg_Formatters : Reg!SetFormatterOf(l, f)
    BY <1>7
  <2>2. /\ rg_obj' = rg_obj /\ rg_made' = rg_made /\ rg_formatter_' = rg_formatter_ /\ rg_unflushed' = rg_unflushed
        /\ rg_formatters' = [s \in rg_Loggers |-> IF s \in Reg!SinksOf({l}) THEN f ELSE rg_formatters[s]]
        /\ rg_inTouch' = {k \in rg_inTouch : rg_obj[k].sink # rg_obj[l].sink}
    BY <2>1 DEF Reg!SetFormatterOf, Reg!FormatWith, Reg!Silent, Reg!settings
  <2>3. rg_formatters' \in [rg_Loggers -> rg_Formatters]
    BY <2>2 DEF RegInv, Formatted
  <2>4. ASSUME NEW k \in rg_inTouch' PROVE rg_formatters'[rg_obj[k].sink] = rg_formatter_'
    <3>1. k \in rg_inTouch /\ k \in rg_Loggers /\ rg_obj[k].sink \notin Reg!SinksOf({l})
      BY <2>2, HeldIsTouched, <1>i DEF Reg!SinksOf
    <3>2. rg_obj[k].sink \in rg_Loggers
      BY <3>1, <1>i, ObjectOf DEF Object
    <3>3. QED
      BY <2>2, <3>1, <3>2 DEF RegInv, Formatted
  <2>5. QED
    BY <2>2, <2>3, <2>4, <1>0, SinksStay
<1>8. CASE \E n \in rg_TraceSizes : Reg!EnableBacktraceOf(l, n)
  <2>1. PICK n \in rg_TraceSizes : Reg!EnableBacktraceOf(l, n)
    BY <1>8
  <2>2. /\ rg_obj' = [rg_obj EXCEPT ![l] = Reg!Traced(o, n)] /\ Reg!Quiet /\ rg_made' = rg_made
        /\ rg_formatter_' = rg_formatter_ /\ rg_inTouch' \subseteq rg_inTouch
    BY <2>1 DEF Reg!EnableBacktraceOf, Reg!settings
  <2>3. SameSinks
    BY <2>2, <1>0, <1>i, SinkIsKept, OneSink
  <2>4. QED
    BY <2>2, <2>3, QuietSinks DEF Reg!Quiet, Reg!Silent
<1>9. CASE \E k \in rg_Loggers : Reg!Clone(l, k)
  BY <1>9, ClonedSinks
<1>10. CASE \E k \in rg_Loggers : Reg!Swap(l, k)
  BY <1>10, SwappedSinks
<1>11. QED
  BY <1>1, <1>2, <1>3, <1>4, <1>5, <1>6, <1>7, <1>8, <1>9, <1>10, Zenon DEF Reg!LoggerStep

LEMMA RegistrySinks ==
    ASSUME RegistryParameters, RegInv, LoggersInv', Reg!RegistryStep
    PROVE  SinksInv'
<1>i. LoggersInv /\ Held /\ \A l \in rg_Loggers : Object(rg_obj[l])
  BY ObjectOf DEF RegInv, LoggersInv
<1>0. rg_obj' = rg_obj => SameSinks
  BY DEF SameSinks
<1>1. CASE \/ \E l \in rg_Loggers \cup {NoLogger} : Reg!SetDefaultLogger(l)
           \/ \E b \in BOOLEAN : Reg!SetAutomaticRegistration(b)
           \/ \E n \in Reg!Names : Reg!Drop(n)
           \/ \E interval \in {0, 5} : Reg!FlushEvery(interval)
           \/ Reg!DropAll \/ Reg!Shutdown
  <2>1. /\ rg_obj' = rg_obj /\ Reg!Quiet /\ rg_made' = rg_made /\ rg_formatter_' = rg_formatter_
        /\ rg_inTouch' \subseteq rg_inTouch
    BY <1>1 DEF Reg!SetDefaultLogger, Reg!SetAutomaticRegistration, Reg!Drop, Reg!FlushEvery, Reg!DropAll,
                Reg!Shutdown, Reg!StillIn, Reg!settings, Reg!history
  <2>2. QED
    BY <2>1, <1>0, QuietSinks DEF Reg!Quiet, Reg!Silent
<1>2. CASE \E f \in rg_Formatters : Reg!SetFormatter(f)
  <2>1. PICK f \in rg_Formatters : Reg!SetFormatter(f)
    BY <1>2
  <2>2. /\ rg_obj' = rg_obj /\ rg_made' = rg_made /\ rg_formatter_' = f /\ rg_inTouch' = rg_inTouch
        /\ Reg!FormatWith(f, Reg!Registered)
    BY <2>1 DEF Reg!SetFormatter, Reg!history
  <2>3. Reg!Registered \in SUBSET rg_Loggers /\ rg_inTouch \subseteq Reg!Registered
    BY <1>i, HeldIsTouched DEF Held
  <2>4. QED
    BY <2>2, <2>3, <1>0, GivenSinks
<1>3. CASE \/ \E n \in rg_TraceSizes : Reg!EnableBacktrace(n)
           \/ \E v \in rg_LevelsUsed : Reg!SetLevel(v) \/ Reg!FlushOn(v)
           \/ \E h \in rg_Handlers : Reg!SetErrorHandler(h)
           \/ \E tokens \in rg_Inputs : Reg!LoadLevels(tokens)
           \/ Reg!DisableBacktrace
  <2>1. /\ Reg!Quiet /\ rg_made' = rg_made /\ rg_formatter_' = rg_formatter_ /\ rg_inTouch' = rg_inTouch
    BY <1>3 DEF Reg!EnableBacktrace, Reg!SetLevel, Reg!FlushOn, Reg!SetErrorHandler, Reg!LoadLevels,
                Reg!DisableBacktrace, Reg!history
  <2>2. SameSinks
    BY <1>3, <1>i, SinksOfAll
  <2>3. QED
    BY <2>1, <2>2, QuietSinks DEF Reg!Quiet, Reg!Silent
<1>4. CASE \E v \in rg_LevelsUsed : Reg!LogDefault(v)
  <2>1. PICK v \in rg_LevelsUsed : Reg!LogDefault(v)
    BY <1>4
  <2>2. rg_default_logger_ \in rg_Loggers /\ Reg!Log(rg_default_logger_, v)
    BY <2>1, <1>i DEF Reg!LogDefault, Held
  <2>3. QED
    BY <2>2, SinksOfLog
<1>5. CASE Reg!FlushAll
  <2>1. /\ rg_obj' = rg_obj /\ rg_unflushed' \subseteq rg_unflushed /\ rg_made' = rg_made
        /\ UNCHANGED <<rg_formatters, rg_formatter_, rg_inTouch>>
    BY <1>5 DEF Reg!FlushAll, Reg!settings, Reg!history
  <2>2. QED
    BY <2>1, <1>0, QuietSinks
<1>6. QED
  BY <1>1, <1>2, <1>3, <1>4, <1>5, Zenon DEF Reg!RegistryStep

LEMMA RegKeeps ==
    ASSUME RegistryParameters, RegInv, [Reg!Next]_(Reg!vars)
    PROVE  RegInv'
<1>1. LoggersInv'
  BY LoggersKeep DEF RegInv
<1>2. CASE Reg!Next
  <2>1. SinksInv'
    BY <1>1, <1>2, LoggerSinks, RegistrySinks DEF Reg!Next
  <2>2. QED
    BY <1>1, <2>1 DEF RegInv, SinksInv
<1>3. CASE UNCHANGED Reg!vars
  <2>1. UNCHANGED <<rg_obj, rg_made, rg_inTouch, rg_formatters, rg_formatter_, rg_unflushed>>
    BY <1>3 DEF Reg!vars, Reg!settings, Reg!io, Reg!history
  <2>2. Formatted' /\ Unflushed'
    BY <2>1 DEF RegInv, Formatted, Unflushed, Reg!SinksOf
  <2>3. QED
    BY <1>1, <2>2 DEF RegInv
<1>4. QED
  BY <1>2, <1>3

LEMMA RegBegins ==
    ASSUME RegistryParameters, Reg!Init
    PROVE  RegInv
<1>1. LoggersInv
  BY RegInitially
<1>2. \A l \in rg_Loggers : rg_obj[l].sink = l
  BY NewIsSound DEF Reg!Init
<1>3. Formatted /\ Unflushed
  BY <1>2 DEF Reg!Init, Formatted, Unflushed, Reg!SinksOf, RegistryParameters
<1>4. QED
  BY <1>1, <1>3 DEF RegInv

LEMMA RegFollows ==
    ASSUME RegistryParameters, RegInv
    PROVE  Reg!TypeOK /\ Reg!MapAgrees /\ Reg!GlobalSettingsReach /\ Reg!BacktraceKeepsLast
<1>i. LoggersInv /\ Formatted /\ Unflushed
  BY DEF RegInv
<1>1. \A l \in rg_Loggers : LoggerSound(rg_obj[l], rg_since[l]) /\ Object(rg_obj[l])
  BY <1>i, ObjectOf
<1>2. Reg!TypeOK
  BY <1>i, <1>1 DEF LoggersInv, Held, Settings, Reg!TypeOK, Object, LoggerSound, Formatted, Unflushed
<1>3. Reg!MapAgrees
  BY <1>i, <1>1 DEF LoggersInv, Named, Reg!MapAgrees, Held
<1>4. Reg!BacktraceKeepsLast
  BY <1>i, <1>1, RegistryRing DEF LoggersInv, Held, Reg!BacktraceKeepsLast, LoggerSound
<1>5. Reg!GlobalSettingsReach
  BY <1>i DEF LoggersInv, Given, Reached, Room, Formatted, Reg!GlobalSettingsReach
<1>6. QED
  BY <1>2, <1>3, <1>4, <1>5
------------------------------------------------------------------------------
(***************************************************************************)
(* TcpSink, the sink with the least reliable other end. Whatever the       *)
(* network answers, for any number of addresses, of parts of a message and *)
(* of messages, with either client: where the current message stands is    *)
(* all there is to know of the last connection, and nothing is ever put    *)
(* behind a message that is cut short.                                     *)
(***************************************************************************)

Ranges == /\ tc_windows \in BOOLEAN /\ tc_alive \in BOOLEAN
          /\ tc_sockets \in 0..tc_MaxSockets /\ tc_socket_ \in 0..tc_sockets
          /\ tc_rp \in 0..(tc_Addresses + 1) /\ tc_sent \in 0..(tc_Parts - 1)
          /\ tc_logged \in 0..tc_MaxMessages /\ tc_cur \in {0, tc_logged}
          /\ tc_wsa \in 0..1
          /\ tc_wire \in [1..tc_MaxSockets -> Seq(Nat \X Nat)]
          /\ tc_failed \subseteq 1..tc_logged

\* Where the sink is: idle, connecting, or sending on its socket.
Stages == /\ tc_rp # 0 => tc_socket_ = 0 /\ tc_sent = 0
          /\ tc_rp = 0 /\ tc_cur # 0 => tc_socket_ # 0
          /\ tc_cur = 0 => tc_sent = 0
          /\ ~tc_alive => tc_socket_ = 0 /\ Tcp!idle

\* The sockets and Winsock: started exactly for a connection or an attempt at one.
Opened == /\ tc_open = IF Tcp!is_connected THEN {tc_socket_} ELSE {}
          /\ ~tc_windows => tc_wsa = 0
          /\ tc_windows /\ Tcp!is_connected => tc_wsa = 1
          /\ tc_rp = 0 /\ ~Tcp!is_connected => tc_wsa = 0

\* Parts of messages one after the other, each message from its beginning.
Chained(w) ==
    /\ w # <<>> => w[1][2] = 1
    /\ \A i \in 2..Len(w) : \/ w[i][1] = w[i - 1][1] /\ w[i][2] = w[i - 1][2] + 1
                            \/ w[i][1] > w[i - 1][1] /\ w[i][2] = 1 /\ w[i - 1][2] = tc_Parts

\* A wire ends with a whole message, or with what is sent of the current one.
Ends(w) == /\ tc_sent = 0 /\ w # <<>> => w[Len(w)][2] = tc_Parts
           /\ tc_sent > 0 => w # <<>> /\ w[Len(w)] = <<tc_cur, tc_sent>>

Streams == /\ \A s \in 1..tc_MaxSockets : /\ Chained(tc_wire[s])
                                          /\ s > tc_sockets => tc_wire[s] = <<>>
           /\ Tcp!is_connected => Ends(tc_wire[tc_socket_])

\* Where the parts of a message can be.
Origins == \A s \in 1..tc_MaxSockets : \A i \in DOMAIN tc_wire[s] :
               /\ tc_wire[s][i][1] \in 1..tc_logged
               /\ tc_wire[s][i][1] = tc_cur => s = tc_socket_ /\ tc_wire[s][i][2] <= tc_sent

Outcomes == /\ tc_cur \notin tc_failed
            /\ \A m \in Tcp!Done : m \notin tc_failed <=> \E s \in 1..tc_MaxSockets : Tcp!WholeOn(m, s)
            /\ \A s, t \in 1..tc_MaxSockets, m \in Tcp!Done : Tcp!WholeOn(m, s) /\ Tcp!WholeOn(m, t) => s = t

TcpInv == Ranges /\ Stages /\ Opened /\ Streams /\ Origins /\ Outcomes
-----------------------------------------------------------------------------
LEMMA TcpInit == ASSUME TcpParameters, Tcp!Init PROVE TcpInv
<1> USE DEF TcpParameters, Tcp!Init
<1>1. Ranges
  <2>1. tc_alive \in BOOLEAN
    BY Zenon
  <2>2. tc_windows \in BOOLEAN /\ tc_wire \in [1..tc_MaxSockets -> Seq(Nat \X Nat)]
    OBVIOUS
  <2>3. QED
    BY <2>1, <2>2 DEF Ranges
<1>2. Stages /\ Opened
  BY DEF Stages, Opened, Tcp!idle, Tcp!is_connected
<1>3. Streams /\ Origins
  BY DEF Streams, Origins, Chained, Ends, Tcp!is_connected
<1>4. Outcomes
  BY DEF Outcomes, Tcp!Done, Tcp!WholeOn
<1>5. QED
  BY <1>1, <1>2, <1>3, <1>4 DEF TcpInv
-----------------------------------------------------------------------------
(* Steps that put nothing on a wire.                                       *)

\* Where no message begins or ends.
LEMMA SameMessages ==
    ASSUME TcpInv, tc_wire' = tc_wire, tc_logged' = tc_logged, tc_cur' = tc_cur, tc_sent' = tc_sent, tc_failed' = tc_failed,
           tc_socket_ = 0 \/ tc_cur = 0 \/ tc_socket_' = tc_socket_
    PROVE  Origins' /\ Outcomes'
<1>1. Origins'
  BY DEF TcpInv, Ranges, Origins
<1>2. Outcomes'
  BY DEF TcpInv, Outcomes, Tcp!Done, Tcp!WholeOn
<1>3. QED
  BY <1>1, <1>2

\* Where a message begins: it is not done, as there was none before it.
LEMMA SameOutcomes ==
    ASSUME TcpInv, tc_cur = 0, tc_wire' = tc_wire, tc_failed' = tc_failed,
           \/ tc_cur' = 0 /\ tc_logged' = tc_logged
           \/ tc_cur' = tc_logged + 1 /\ tc_logged' = tc_logged + 1
    PROVE  Outcomes'
<1>1. tc_logged \in Nat /\ tc_failed \subseteq 1..tc_logged
  BY DEF TcpInv, Ranges
<1>2. Tcp!Done' = Tcp!Done /\ tc_cur' \notin tc_failed
  BY <1>1 DEF Tcp!Done
<1>3. \A m, s : Tcp!WholeOn(m, s)' <=> Tcp!WholeOn(m, s)
  BY DEF Tcp!WholeOn
<1>4. QED
  BY <1>2, <1>3 DEF TcpInv, Outcomes

\* A new socket has nothing on its wire; without one there is no stream under way.
LEMMA SameStreams ==
    ASSUME TcpParameters, TcpInv, tc_wire' = tc_wire, tc_sockets' \in tc_sockets..tc_MaxSockets,
           \/ tc_socket_' = 0
           \/ tc_socket_' \in (tc_sockets + 1)..tc_MaxSockets /\ tc_sent' = 0
    PROVE  Streams'
<1>1. \A s \in 1..tc_MaxSockets : s > tc_sockets => tc_wire[s] = <<>>
  BY DEF TcpInv, Streams
<1>2. \A s \in 1..tc_MaxSockets : Chained(tc_wire'[s]) /\ (s > tc_sockets' => tc_wire'[s] = <<>>)
  BY <1>1 DEF TcpParameters, TcpInv, Ranges, Streams, Chained
<1>3. CASE tc_socket_' = 0
  BY <1>2, <1>3 DEF Streams, Tcp!is_connected, Chained
<1>4. CASE tc_socket_' \in (tc_sockets + 1)..tc_MaxSockets /\ tc_sent' = 0
  <2>1. tc_wire'[tc_socket_'] = <<>>
    BY <1>1, <1>4 DEF TcpParameters, TcpInv, Ranges
  <2>2. Ends(tc_wire[tc_socket_])'
    BY <1>4, <2>1 DEF Ends
  <2>3. QED
    BY <1>2, <2>2 DEF Streams, Chained
<1>5. QED
  BY <1>3, <1>4

\* connect: the message it is for, if any, is the latest.
LEMMA ConnectBeginsStep ==
    ASSUME TcpParameters, TcpInv, Tcp!idle, ~Tcp!is_connected, NEW m, Tcp!ConnectBegins(m), tc_alive',
           \/ m = 0 /\ tc_logged' = tc_logged
           \/ m = tc_logged + 1 /\ tc_logged' = tc_logged + 1 /\ tc_logged < tc_MaxMessages
    PROVE  TcpInv'
<1>1. /\ tc_rp' = 1 /\ tc_cur' = m /\ tc_sent' = 0 /\ tc_wsa' = (IF tc_windows /\ tc_wsa = 0 THEN 1 ELSE tc_wsa)
      /\ tc_windows' = tc_windows /\ tc_socket_' = tc_socket_ /\ tc_open' = tc_open /\ tc_sockets' = tc_sockets
      /\ tc_wire' = tc_wire /\ tc_failed' = tc_failed /\ tc_socket_ = 0 /\ tc_cur = 0
  BY DEF Tcp!ConnectBegins, Tcp!idle, Tcp!is_connected
<1>2. Ranges'
  <2>1. tc_alive' \in BOOLEAN
    BY Zenon
  <2>2. QED
    BY <1>1, <2>1 DEF TcpParameters, TcpInv, Ranges
<1>3. Stages' /\ Opened'
  BY <1>1 DEF TcpInv, Ranges, Stages, Opened, Tcp!is_connected, Tcp!idle
<1>4. Streams'
  BY <1>1, SameStreams DEF TcpInv, Ranges
<1>5. Origins'
  BY <1>1 DEF TcpInv, Ranges, Origins
<1>6. Outcomes'
  BY <1>1, SameOutcomes DEF TcpInv, Ranges
<1>7. QED
  BY <1>2, <1>3, <1>4, <1>5, <1>6 DEF TcpInv

LEMMA ConstructStep == ASSUME TcpParameters, TcpInv, Tcp!Construct PROVE TcpInv'
<1>1. ~tc_alive /\ Tcp!idle /\ tc_alive' = TRUE /\ tc_logged' = tc_logged /\ tc_socket_ = 0
  BY DEF Tcp!Construct, TcpInv, Stages
<1>2. CASE tc_lazy
  <2>1. /\ tc_windows' = tc_windows /\ tc_socket_' = tc_socket_ /\ tc_rp' = tc_rp /\ tc_cur' = tc_cur /\ tc_sent' = tc_sent
        /\ tc_open' = tc_open /\ tc_sockets' = tc_sockets /\ tc_wsa' = tc_wsa /\ tc_wire' = tc_wire /\ tc_failed' = tc_failed
    BY <1>2 DEF Tcp!Construct
  <2>2. Ranges' /\ Stages' /\ Opened'
    BY <1>1, <2>1 DEF TcpInv, Ranges, Stages, Opened, Tcp!is_connected, Tcp!idle
  <2>3. Streams'
    BY <1>1, <2>1, SameStreams DEF TcpInv, Ranges
  <2>4. QED
    BY <1>1, <2>1, <2>2, <2>3, SameMessages DEF TcpInv
<1>3. CASE ~tc_lazy
  <2>1. Tcp!ConnectBegins(0)
    BY <1>3 DEF Tcp!Construct
  <2>2. QED
    BY <1>1, <2>1, ConnectBeginsStep DEF Tcp!is_connected
<1>4. QED
  BY <1>2, <1>3

LEMMA LogStep == ASSUME TcpParameters, TcpInv, Tcp!Log PROVE TcpInv'
<1>1. /\ tc_alive /\ tc_alive' = tc_alive /\ Tcp!idle /\ tc_logged < tc_MaxMessages /\ tc_logged' = tc_logged + 1
      /\ tc_cur = 0 /\ tc_rp = 0 /\ tc_sent = 0
  BY DEF Tcp!Log, Tcp!idle, TcpInv, Stages
<1>2. CASE Tcp!is_connected
  <2>1. /\ tc_cur' = tc_logged + 1 /\ tc_sent' = 0 /\ tc_windows' = tc_windows /\ tc_socket_' = tc_socket_ /\ tc_rp' = tc_rp
        /\ tc_open' = tc_open /\ tc_sockets' = tc_sockets /\ tc_wsa' = tc_wsa /\ tc_wire' = tc_wire /\ tc_failed' = tc_failed
    BY <1>2 DEF Tcp!Log
  <2>2. Ranges'
    BY <1>1, <2>1 DEF TcpParameters, TcpInv, Ranges
  <2>3. Stages' /\ Opened'
    BY <1>1, <1>2, <2>1 DEF TcpInv, Ranges, Stages, Opened, Tcp!is_connected, Tcp!idle
  <2>4. Streams'
    BY <1>1, <2>1 DEF TcpInv, Streams, Chained, Ends, Tcp!is_connected
  <2>5. Origins'
    BY <1>1, <2>1 DEF TcpInv, Ranges, Origins
  <2>6. Outcomes'
    BY <1>1, <2>1, SameOutcomes DEF TcpInv, Ranges
  <2>7. QED
    BY <2>2, <2>3, <2>4, <2>5, <2>6 DEF TcpInv
<1>3. CASE ~Tcp!is_connected
  <2>1. Tcp!ConnectBegins(tc_logged + 1)
    BY <1>3 DEF Tcp!Log
  <2>2. QED
    BY <1>1, <1>3, <2>1, ConnectBeginsStep
<1>4. QED
  BY <1>2, <1>3

LEMMA TryStep ==
    ASSUME TcpParameters, TcpInv, Tcp!Connects \/ Tcp!ConnectRefused \/ Tcp!NoSocket PROVE TcpInv'
<1>1. /\ tc_rp \in 1..tc_Addresses /\ tc_socket_ = 0 /\ tc_sent = 0 /\ tc_alive /\ tc_open = {}
      /\ tc_windows' = tc_windows /\ tc_alive' = tc_alive /\ tc_cur' = tc_cur /\ tc_sent' = tc_sent /\ tc_wire' = tc_wire
      /\ tc_logged' = tc_logged /\ tc_failed' = tc_failed
  BY DEF Tcp!Connects, Tcp!ConnectRefused, Tcp!NoSocket, TcpInv, Stages, Opened, Tcp!is_connected, Tcp!idle, TcpParameters
<1>2. \/ /\ tc_rp' = 0 /\ tc_socket_' = tc_sockets + 1 /\ tc_sockets' = tc_sockets + 1 /\ tc_sockets < tc_MaxSockets
         /\ tc_open' = {tc_sockets + 1} /\ tc_wsa' = tc_wsa /\ (tc_windows => tc_wsa > 0)
      \/ /\ tc_rp' = tc_rp + 1 /\ tc_socket_' = 0 /\ tc_sockets' = tc_sockets /\ tc_open' = tc_open
         /\ tc_wsa' \in {0, tc_wsa}
  BY <1>1 DEF Tcp!Connects, Tcp!ConnectRefused, Tcp!NoSocket, Tcp!Cleaned, TcpInv, Ranges
<1>3. Ranges'
  BY <1>1, <1>2 DEF TcpParameters, TcpInv, Ranges
<1>4. Stages' /\ Opened'
  BY <1>1, <1>2 DEF TcpParameters, TcpInv, Ranges, Stages, Opened, Tcp!is_connected, Tcp!idle
<1>5. Streams'
  BY <1>1, <1>2, SameStreams DEF TcpParameters, TcpInv, Ranges
<1>6. QED
  BY <1>1, <1>3, <1>4, <1>5, SameMessages DEF TcpInv

\* close() leaves no socket open, and Winsock as it is without one.
LEMMA CloseStep ==
    ASSUME TcpInv, Tcp!close, tc_windows' = tc_windows, tc_rp' = 0,
           tc_rp = 0
    PROVE  /\ tc_socket_' = 0 /\ tc_open' = {} /\ tc_wsa' = 0
           /\ Opened'
<1>1. tc_socket_' = 0 /\ tc_open' = {} /\ tc_wsa' = 0
  BY DEF Tcp!close, Tcp!CloseWindows, Tcp!ClosePosix, Tcp!Cleaned, TcpInv, Ranges, Opened, Tcp!is_connected
<1>2. QED
  BY <1>1 DEF Opened, Tcp!is_connected

\* Not all of the current message is sent.
LEMMA NotWhole ==
    ASSUME TcpParameters, TcpInv, tc_cur # 0 PROVE \A s \in 1..tc_MaxSockets : ~Tcp!WholeOn(tc_cur, s)
<1> SUFFICES ASSUME NEW s \in 1..tc_MaxSockets, NEW i \in DOMAIN tc_wire[s], tc_wire[s][i] = <<tc_cur, tc_Parts>>
             PROVE  FALSE
  BY DEF Tcp!WholeOn, Tcp!Part
<1>1. tc_wire[s][i][1] = tc_cur /\ tc_wire[s][i][2] = tc_Parts
  OBVIOUS
<1>2. tc_wire[s][i][2] <= tc_sent
  BY <1>1 DEF TcpInv, Origins
<1>3. QED
  BY <1>1, <1>2 DEF TcpParameters, TcpInv, Ranges

\* An error is told of the message, if there is one, of which not all has been sent.
LEMMA ThrowStep ==
    ASSUME TcpParameters, TcpInv, Tcp!Throw, tc_wire' = tc_wire, tc_socket_' = 0, tc_sockets' = tc_sockets,
           tc_wsa' = 0, tc_open' = {}
    PROVE  TcpInv'
<1>1. /\ tc_rp' = 0 /\ tc_cur' = 0 /\ tc_sent' = 0 /\ tc_windows' = tc_windows /\ tc_logged' = tc_logged
      /\ tc_failed' = (IF tc_cur = 0 THEN tc_failed ELSE tc_failed \cup {tc_cur})
  BY DEF Tcp!Throw
<1>2. Ranges'
  <2>1. tc_alive' \in BOOLEAN
    BY Zenon DEF Tcp!Throw
  <2>2. QED
    BY <1>1, <2>1 DEF TcpParameters, TcpInv, Ranges
<1>3. Stages' /\ Opened'
  BY <1>1 DEF TcpInv, Ranges, Stages, Opened, Tcp!is_connected, Tcp!idle
<1>4. Streams'
  BY <1>1, SameStreams DEF TcpInv, Ranges
<1>5. Origins'
  BY <1>1 DEF TcpInv, Ranges, Origins
<1>6. Outcomes'
  <2>1. \A m, s : Tcp!WholeOn(m, s)' <=> Tcp!WholeOn(m, s)
    BY DEF Tcp!WholeOn
  <2>2. \A s \in 1..tc_MaxSockets : tc_cur # 0 => ~Tcp!WholeOn(tc_cur, s)
    BY NotWhole
  <2>3. Tcp!Done' = IF tc_cur = 0 THEN Tcp!Done ELSE Tcp!Done \cup {tc_cur}
    BY <1>1 DEF Tcp!Done, TcpInv, Ranges
  <2>4. 0 \notin tc_failed'
    BY <1>1 DEF TcpInv, Ranges
  <2>5. QED
    BY <1>1, <2>1, <2>2, <2>3, <2>4 DEF TcpInv, Outcomes, Tcp!Done
<1>7. QED
  BY <1>2, <1>3, <1>4, <1>5, <1>6 DEF TcpInv

LEMMA FailStep ==
    ASSUME TcpParameters, TcpInv, Tcp!NoAddress \/ Tcp!ConnectFails \/ Tcp!SendFails PROVE TcpInv'
<1>1. CASE Tcp!NoAddress \/ Tcp!ConnectFails
  <2>1. /\ Tcp!Throw /\ tc_socket_' = tc_socket_ /\ tc_open' = tc_open /\ tc_sockets' = tc_sockets /\ tc_wire' = tc_wire
        /\ tc_rp # 0 /\ tc_wsa' = IF tc_windows THEN Tcp!Cleaned(tc_wsa) ELSE tc_wsa
    BY <1>1 DEF Tcp!NoAddress, Tcp!ConnectFails, TcpParameters
  <2>2. tc_socket_' = 0 /\ tc_open' = {} /\ tc_wsa' = 0
    BY <2>1 DEF TcpInv, Ranges, Stages, Opened, Tcp!is_connected, Tcp!Cleaned
  <2>3. QED
    BY <2>1, <2>2, ThrowStep
<1>2. CASE Tcp!SendFails
  <2>1. Tcp!Throw /\ Tcp!close /\ tc_rp = 0 /\ tc_sockets' = tc_sockets /\ tc_wire' = tc_wire
    BY <1>2 DEF Tcp!SendFails
  <2>2. tc_rp' = 0 /\ tc_windows' = tc_windows
    BY <2>1 DEF Tcp!Throw
  <2>3. QED
    BY <2>1, <2>2, CloseStep, ThrowStep
<1>3. QED
  BY <1>1, <1>2

LEMMA DestructStep == ASSUME TcpParameters, TcpInv, Tcp!Destruct PROVE TcpInv'
<1>1. /\ tc_alive' = FALSE /\ tc_rp = 0 /\ tc_cur = 0 /\ tc_sent = 0 /\ tc_windows' = tc_windows /\ tc_rp' = tc_rp /\ tc_cur' = tc_cur
      /\ tc_sent' = tc_sent /\ tc_sockets' = tc_sockets /\ tc_wire' = tc_wire /\ tc_logged' = tc_logged /\ tc_failed' = tc_failed
  BY DEF Tcp!Destruct, Tcp!idle, TcpInv, Stages
<1>2. tc_socket_' = 0 /\ Opened'
  <2>1. CASE tc_windows \/ Tcp!is_connected
    BY <1>1, <2>1, CloseStep DEF Tcp!Destruct
  <2>2. CASE ~tc_windows /\ ~Tcp!is_connected
    BY <1>1, <2>2 DEF Tcp!Destruct, TcpInv, Opened, Tcp!is_connected
  <2>3. QED
    BY <2>1, <2>2
<1>3. tc_wsa' \in 0..1
  BY <1>1 DEF Tcp!Destruct, Tcp!close, Tcp!CloseWindows, Tcp!ClosePosix, Tcp!Cleaned, TcpInv, Ranges
<1>4. Ranges' /\ Stages'
  <2>1. tc_alive' \in BOOLEAN
    BY <1>1, Zenon
  <2>2. Ranges'
    BY <1>1, <1>2, <1>3, <2>1 DEF TcpParameters, TcpInv, Ranges
  <2>3. QED
    BY <1>1, <1>2, <2>2 DEF Stages, Tcp!idle
<1>5. Streams'
  BY <1>1, <1>2, SameStreams DEF TcpInv, Ranges
<1>6. QED
  BY <1>1, <1>2, <1>4, <1>5, SameMessages DEF TcpInv
-----------------------------------------------------------------------------
(* Sending.                                                                *)

\* The wire v is w with the parts k + 1 to k + n of message m behind it.
Continued(w, m, k, n, v) ==
    /\ Len(v) = Len(w) + n
    /\ \A i \in 1..Len(w) : v[i] = w[i]
    /\ \A i \in 1..n : v[Len(w) + i] = <<m, k + i>>

\* A wire behind which part k + 1 of message m may come.
Ready(w, m, k) == /\ k > 0 => w # <<>> /\ w[Len(w)] = <<m, k>>
                  /\ k = 0 /\ w # <<>> => w[Len(w)][1] < m /\ w[Len(w)][2] = tc_Parts

LEMMA Appended ==
    ASSUME NEW w \in Seq(Nat \X Nat), NEW m \in Nat, NEW k \in Nat, NEW n \in Nat \ {0}
    PROVE  \E v \in Seq(Nat \X Nat) :
             v = w \o [i \in 1..n |-> Tcp!Part(m, k + i)] /\ Continued(w, m, k, n, v)
<1>1. PICK e \in Seq(Nat \X Nat) : /\ e = [i \in 1..n |-> Tcp!Part(m, k + i)] /\ Len(e) = n
                                   /\ \A i \in 1..n : e[i] = <<m, k + i>>
  <2>1. [i \in 1..n |-> Tcp!Part(m, k + i)] \in Seq(Nat \X Nat)
    BY DEF Tcp!Part
  <2>2. Len([i \in 1..n |-> Tcp!Part(m, k + i)]) = n
    OBVIOUS
  <2>3. \A i \in 1..n : [j \in 1..n |-> Tcp!Part(m, k + j)][i] = <<m, k + i>>
    BY DEF Tcp!Part
  <2>4. QED
    BY <2>1, <2>2, <2>3
<1>2. /\ w \o e \in Seq(Nat \X Nat) /\ Len(w \o e) = Len(w) + n
      /\ \A i \in 1..(Len(w) + n) : (w \o e)[i] = IF i <= Len(w) THEN w[i] ELSE e[i - Len(w)]
  BY <1>1, ConcatProperties
<1>3. PICK v \in Seq(Nat \X Nat) :
        /\ v = w \o e /\ Len(v) = Len(w) + n
        /\ \A i \in 1..(Len(w) + n) : v[i] = IF i <= Len(w) THEN w[i] ELSE e[i - Len(w)]
  BY <1>2
<1>4. Len(w) \in Nat
  OBVIOUS
<1>5. \A i \in 1..Len(w) : v[i] = w[i]
  BY <1>3, <1>4
<1>6. \A i \in 1..n : v[Len(w) + i] = <<m, k + i>>
  <2>1. ASSUME NEW i \in 1..n PROVE v[Len(w) + i] = e[i]
    <3>1. /\ Len(w) + i \in 1..(Len(w) + n) /\ ~(Len(w) + i <= Len(w))
          /\ (Len(w) + i) - Len(w) = i
      BY <1>4
    <3>2. v[Len(w) + i] = e[(Len(w) + i) - Len(w)]
      BY <1>3, <3>1
    <3>3. QED
      BY <3>1, <3>2
  <2>2. QED
    BY <1>1, <2>1
<1>7. v = w \o [i \in 1..n |-> Tcp!Part(m, k + i)]
  BY <1>1, <1>3
<1>8. Continued(w, m, k, n, v)
  BY <1>3, <1>5, <1>6 DEF Continued
<1>9. QED
  BY <1>7, <1>8
\* They continue what was there.
LEMMA Extends ==
    ASSUME tc_Parts \in Nat \ {0}, NEW w \in Seq(Nat \X Nat), Chained(w), NEW m \in Nat,
           NEW k \in 0..(tc_Parts - 1), NEW n \in 1..(tc_Parts - k),
           NEW v \in Seq(Nat \X Nat), Continued(w, m, k, n, v), Ready(w, m, k)
    PROVE  Chained(v) /\ v # <<>> /\ v[Len(v)] = <<m, k + n>>
<1>n. n \in Nat \ {0} /\ k \in Nat /\ Len(w) \in Nat
  OBVIOUS
<1>l. Len(v) = Len(w) + n
  BY DEF Continued
<1>w. \A i \in 1..Len(w) : v[i] = w[i]
  BY DEF Continued
<1>v. \A i \in 1..n : v[Len(w) + i] = <<m, k + i>>
  BY DEF Continued
<1>4. v # <<>> /\ v[Len(v)] = <<m, k + n>>
  <2>1. n \in 1..n
    BY <1>n
  <2>2. v[Len(w) + n] = <<m, k + n>>
    BY <1>v, <2>1
  <2>3. Len(v) # 0
    BY <1>n, <1>l
  <2>4. v # <<>>
    BY <2>3
  <2>5. v[Len(v)] = v[Len(w) + n]
    BY <1>l
  <2>6. QED
    BY <2>2, <2>4, <2>5
<1>5. \A i \in 1..n : v[Len(w) + i][1] = m /\ v[Len(w) + i][2] = k + i
  <2>1. ASSUME NEW i \in 1..n PROVE v[Len(w) + i][1] = m /\ v[Len(w) + i][2] = k + i
    <3>1. v[Len(w) + i] = <<m, k + i>>
      BY <1>v
    <3>2. QED
      BY <3>1
  <2>2. QED
    BY <2>1
<1>6. v[1][2] = 1
  <2>1. CASE w = <<>>
    <3>1. k = 0 /\ Len(w) = 0 /\ 1 \in 1..n
      BY <1>n, <2>1 DEF Ready
    <3>2. v[Len(w) + 1][2] = k + 1
      BY <1>5, <3>1
    <3>3. QED
      BY <3>1, <3>2
  <2>2. CASE w # <<>>
    <3>1. Len(w) # 0
      BY <2>2
    <3>2. 1 \in 1..Len(w)
      BY <1>n, <3>1
    <3>3. v[1] = w[1]
      BY <1>w, <3>2
    <3>4. QED
      BY <2>2, <3>3 DEF Chained
  <2>3. QED
    BY <2>1, <2>2
<1>7. ASSUME NEW i \in 2..Len(v)
      PROVE  \/ v[i][1] = v[i - 1][1] /\ v[i][2] = v[i - 1][2] + 1
             \/ v[i][1] > v[i - 1][1] /\ v[i][2] = 1 /\ v[i - 1][2] = tc_Parts
  <2>1. CASE i <= Len(w)
    <3>1. i \in 2..Len(w) /\ v[i] = w[i] /\ v[i - 1] = w[i - 1]
      <4>1. i \in 2..Len(w) /\ i \in 1..Len(w) /\ i - 1 \in 1..Len(w)
        BY <1>n, <2>1
      <4>2. QED
        BY <1>w, <4>1
    <3>2. QED
      BY <3>1 DEF Chained
  <2>2. CASE i = Len(w) + 1
    <3>1. v[i][1] = m /\ v[i][2] = k + 1 /\ w # <<>> /\ v[i - 1] = w[Len(w)]
      <4>1. v[Len(w) + 1][1] = m /\ v[Len(w) + 1][2] = k + 1
        <5>1. 1 \in 1..n
          BY <1>n
        <5>2. QED
          BY <1>5, <5>1
      <4>2. Len(w) \in 1..Len(w) /\ i - 1 = Len(w)
        BY <1>n, <2>2
      <4>3. w # <<>>
        BY <4>2
      <4>4. v[i - 1] = w[Len(w)]
        BY <1>w, <4>2
      <4>5. QED
        BY <2>2, <4>1, <4>3, <4>4
    <3>2. CASE k > 0
      <4>0. v[i - 1] = <<m, k>>
        BY <3>1, <3>2 DEF Ready
      <4>1. v[i - 1][1] = m /\ v[i - 1][2] = k
        BY <4>0
      <4>2. QED
        BY <3>1, <4>1
    <3>3. CASE k = 0
      <4>1. w[Len(w)][1] < m /\ w[Len(w)][2] = tc_Parts
        BY <3>1, <3>3 DEF Ready
      <4>2. w[Len(w)] \in Nat \X Nat
        BY <2>2, <1>n
      <4>3. w[Len(w)][1] \in Nat
        BY <4>2
      <4>4. QED
        BY <3>1, <3>3, <4>1, <4>3
    <3>4. QED
      BY <1>n, <3>2, <3>3
  <2>3. CASE i > Len(w) + 1
    <3>1. PICK j \in 2..n : i = Len(w) + j
      <4>1. i - Len(w) \in 2..n /\ i = Len(w) + (i - Len(w))
        BY <1>n, <1>l, <2>3
      <4>2. QED
        BY <4>1
    <3>2. i - 1 = Len(w) + (j - 1) /\ j \in 1..n /\ j - 1 \in 1..n
      BY <3>1
    <3>3. /\ v[i][1] = m /\ v[i][2] = k + j
          /\ v[i - 1][1] = m /\ v[i - 1][2] = k + (j - 1)
      BY <1>5, <3>1, <3>2
    <3>4. QED
      BY <3>3, <3>1
  <2>4. i <= Len(w) \/ i = Len(w) + 1 \/ i > Len(w) + 1
    <3>1. i \in Int /\ Len(w) \in Int
      BY <1>n, <1>l
    <3>2. QED
      BY <3>1
  <2>5. QED
    BY <2>1, <2>2, <2>3, <2>4
<1>8. Chained(v)
  BY <1>6, <1>7 DEF Chained
<1>9. QED
  BY <1>4, <1>8

LEMMA SendStep ==
    ASSUME TcpParameters, TcpInv, NEW n \in 1..tc_Parts, Tcp!Send(n) PROVE TcpInv'
<1>1. /\ tc_cur # 0 /\ tc_rp = 0 /\ n \in 1..(tc_Parts - tc_sent) /\ tc_sent \in 0..(tc_Parts - 1)
      /\ tc_windows' = tc_windows /\ tc_alive' = tc_alive /\ tc_socket_' = tc_socket_ /\ tc_rp' = tc_rp
      /\ tc_open' = tc_open /\ tc_sockets' = tc_sockets /\ tc_wsa' = tc_wsa /\ tc_logged' = tc_logged /\ tc_failed' = tc_failed
      /\ \/ tc_sent + n = tc_Parts /\ tc_cur' = 0 /\ tc_sent' = 0
         \/ tc_sent + n # tc_Parts /\ tc_cur' = tc_cur /\ tc_sent' = tc_sent + n
  BY DEF Tcp!Send, TcpParameters, TcpInv, Ranges
<1>2. PICK s \in 1..tc_MaxSockets : s = tc_socket_
  BY <1>1 DEF TcpParameters, TcpInv, Ranges, Stages
<1>3. PICK w \in Seq(Nat \X Nat) : w = tc_wire[s]
  BY DEF TcpInv, Ranges
<1>7. tc_cur = tc_logged /\ tc_logged \in Nat /\ tc_cur \in Nat
  BY <1>1 DEF TcpInv, Ranges
<1>4. PICK v \in Seq(Nat \X Nat) :
        v = w \o [i \in 1..n |-> Tcp!Part(tc_cur, tc_sent + i)] /\ Continued(w, tc_cur, tc_sent, n, v)
  <2>1. tc_sent \in Nat /\ n \in Nat \ {0}
    BY <1>1 DEF TcpParameters
  <2>2. QED
    BY <1>7, <2>1, Appended
<1>c. /\ Len(v) = Len(w) + n
      /\ \A i \in 1..Len(w) : v[i] = w[i]
      /\ \A i \in 1..n : v[Len(w) + i] = <<tc_cur, tc_sent + i>>
  BY <1>4 DEF Continued
<1>n. n \in Nat \ {0} /\ Len(w) \in Nat /\ Len(v) \in Nat
  BY DEF TcpParameters
<1>5. /\ tc_wire \in [1..tc_MaxSockets -> Seq(Nat \X Nat)]
      /\ tc_wire' = [tc_wire EXCEPT ![s] = v]
      /\ tc_wire'[s] = v /\ \A t \in 1..tc_MaxSockets : t # s => tc_wire'[t] = tc_wire[t]
  BY <1>2, <1>3, <1>4 DEF Tcp!Send, TcpInv, Ranges
<1>6. /\ Chained(w) /\ Ends(w) /\ s <= tc_sockets
      /\ \A i \in 1..Len(w) : w[i][1] \in 1..tc_logged /\ (w[i][1] = tc_cur => w[i][2] <= tc_sent)
  <2>1. Chained(w)
    BY <1>2, <1>3 DEF TcpInv, Streams
  <2>2. Ends(w) /\ s <= tc_sockets
    BY <1>2, <1>3 DEF TcpParameters, TcpInv, Ranges, Streams, Tcp!is_connected
  <2>3. DOMAIN w = 1..Len(w)
    BY <1>3
  <2>4. \A i \in DOMAIN w : w[i][1] \in 1..tc_logged /\ (w[i][1] = tc_cur => w[i][2] <= tc_sent)
    BY <1>2, <1>3 DEF TcpInv, Origins
  <2>5. QED
    BY <2>1, <2>2, <2>3, <2>4
<1>8. /\ tc_sent > 0 => w # <<>> /\ w[Len(w)] = <<tc_cur, tc_sent>>
      /\ tc_sent = 0 /\ w # <<>> => w[Len(w)][1] < tc_cur /\ w[Len(w)][2] = tc_Parts
  <2>1. tc_sent > 0 => w # <<>> /\ w[Len(w)] = <<tc_cur, tc_sent>>
    BY <1>6 DEF Ends
  <2>2. ASSUME tc_sent = 0, w # <<>> PROVE w[Len(w)][1] < tc_cur /\ w[Len(w)][2] = tc_Parts
    <3>1. Len(w) \in 1..Len(w)
      BY <2>2
    <3>3. w[Len(w)][2] = tc_Parts
      BY <1>6, <2>2 DEF Ends
    <3>4. w[Len(w)][1] # tc_cur
      <4>1. w[Len(w)][1] = tc_cur => w[Len(w)][2] <= tc_sent
        BY <1>6, <3>1
      <4>2. ~(tc_Parts <= tc_sent)
        BY <2>2 DEF TcpParameters
      <4>3. QED
        BY <3>3, <4>1, <4>2
    <3>5. w[Len(w)][1] \in 1..tc_logged
      BY <1>6, <3>1
    <3>6. w[Len(w)][1] < tc_cur
      BY <1>7, <3>4, <3>5
    <3>7. QED
      BY <3>3, <3>6
  <2>3. QED
    BY <2>1, <2>2
<1>9. Chained(v) /\ v # <<>> /\ v[Len(v)] = <<tc_cur, tc_sent + n>>
  <2>1. tc_Parts \in Nat \ {0}
    BY DEF TcpParameters
  <2>2. Ready(w, tc_cur, tc_sent)
    BY <1>8 DEF Ready
  <2>3. QED
    BY <1>1, <1>4, <1>6, <1>7, <2>1, <2>2, Extends
<1>10. Ranges'
  <2>1. tc_wire' \in [1..tc_MaxSockets -> Seq(Nat \X Nat)]
    BY <1>4, <1>5
  <2>2. tc_windows' \in BOOLEAN /\ tc_alive' \in BOOLEAN
    BY <1>1 DEF TcpInv, Ranges
  <2>3. tc_sent' \in 0..(tc_Parts - 1) /\ tc_cur' \in {0, tc_logged'}
    BY <1>1, <1>7, <1>n DEF TcpParameters
  <2>4. QED
    BY <1>1, <2>1, <2>2, <2>3 DEF TcpParameters, TcpInv, Ranges
<1>11. Stages' /\ Opened'
  BY <1>1 DEF TcpInv, Stages, Opened, Tcp!is_connected, Tcp!idle
<1>12. Streams'
  <2>1. (tc_sent' = 0 => v[Len(v)][2] = tc_Parts) /\ (tc_sent' > 0 => v[Len(v)] = <<tc_cur', tc_sent'>>)
    BY <1>1, <1>9 DEF TcpParameters
  <2>2. Ends(tc_wire[tc_socket_])'
    BY <1>1, <1>2, <1>5, <1>9, <2>1 DEF Ends
  <2>3. ASSUME NEW t \in 1..tc_MaxSockets
        PROVE  Chained(tc_wire[t])' /\ (t > tc_sockets' => tc_wire'[t] = <<>>)
    <3>1. CASE t = s
      <4>1. Chained(tc_wire[t])'
        BY <1>5, <1>9, <3>1 DEF Chained
      <4>2. ~(t > tc_sockets')
        BY <1>1, <1>6, <3>1 DEF TcpInv, Ranges, TcpParameters
      <4>3. QED
        BY <4>1, <4>2
    <3>2. CASE t # s
      <4>1. Chained(tc_wire[t]) /\ (t > tc_sockets => tc_wire[t] = <<>>)
        BY DEF TcpInv, Streams
      <4>2. tc_wire'[t] = tc_wire[t]
        BY <1>5, <3>2
      <4>3. QED
        BY <1>1, <4>1, <4>2 DEF Chained
    <3>3. QED
      BY <3>1, <3>2
  <2>4. QED
    BY <2>2, <2>3 DEF Streams
<1>13. \A i \in 1..Len(v) : \/ i \in 1..Len(w) /\ v[i] = w[i]
                            \/ \E j \in 1..n : i = Len(w) + j /\ v[i] = <<tc_cur, tc_sent + j>>
  <2>1. \A i \in 1..Len(v) : i \in 1..Len(w) \/ i - Len(w) \in 1..n
    BY <1>c, <1>n
  <2>2. \A i \in 1..Len(v) : i = Len(w) + (i - Len(w))
    BY <1>c, <1>n
  <2>3. QED
    BY <1>c, <1>n, <2>1, <2>2
<1>14. Origins'
  <2>1. ASSUME NEW i \in 1..Len(v)
        PROVE  v[i][1] \in 1..tc_logged /\ (v[i][1] = tc_cur => v[i][2] <= tc_sent + n)
    <3>1. CASE i \in 1..Len(w) /\ v[i] = w[i]
      <4>1. w[i] \in Nat \X Nat
        BY <3>1
      <4>2. w[i][1] \in 1..tc_logged /\ (w[i][1] = tc_cur => w[i][2] <= tc_sent) /\ w[i][2] \in Nat
        BY <1>6, <3>1, <4>1
      <4>3. tc_sent \in Nat /\ n \in Nat
        BY <1>1 DEF TcpParameters
      <4>4. \A p \in Nat : p <= tc_sent => p <= tc_sent + n
        BY <4>3
      <4>5. w[i][1] = tc_cur => w[i][2] <= tc_sent + n
        BY <4>2, <4>4
      <4>6. QED
        BY <3>1, <4>2, <4>5
    <3>2. ASSUME NEW j \in 1..n, v[i] = <<tc_cur, tc_sent + j>> PROVE v[i][1] = tc_cur /\ v[i][2] <= tc_sent + n
      BY <1>1, <3>2 DEF TcpParameters
    <3>3. tc_cur \in 1..tc_logged
      BY <1>1, <1>7
    <3>4. (i \in 1..Len(w) /\ v[i] = w[i]) \/ \E j \in 1..n : v[i] = <<tc_cur, tc_sent + j>>
      BY <1>13
    <3>5. CASE \E j \in 1..n : v[i] = <<tc_cur, tc_sent + j>>
      BY <3>2, <3>3, <3>5
    <3>6. QED
      BY <3>1, <3>4, <3>5
  <2>2. ASSUME NEW t \in 1..tc_MaxSockets, NEW i \in DOMAIN tc_wire'[t]
        PROVE  /\ tc_wire'[t][i][1] \in 1..tc_logged
               /\ tc_wire'[t][i][1] = tc_cur' => t = s /\ tc_wire'[t][i][2] <= tc_sent'
    <3>1. CASE t = s
      <4>1. i \in 1..Len(v) /\ tc_wire'[t][i] = v[i]
        BY <1>c, <1>5, <2>2, <3>1
      <4>2. tc_cur' = 0 \/ (tc_cur' = tc_cur /\ tc_sent' = tc_sent + n)
        BY <1>1
      <4>3. QED
        BY <2>1, <3>1, <4>1, <4>2
    <3>2. CASE t # s
      <4>1. i \in DOMAIN tc_wire[t] /\ tc_wire'[t][i] = tc_wire[t][i]
        BY <1>5, <2>2, <3>2
      <4>2. tc_wire[t][i][1] \in 1..tc_logged /\ tc_wire[t][i][1] # tc_cur
        BY <1>2, <3>2, <4>1 DEF TcpInv, Origins
      <4>3. QED
        BY <1>1, <4>1, <4>2
    <3>3. QED
      BY <3>1, <3>2
  <2>3. QED
    BY <1>1, <1>2, <2>2 DEF Origins
<1>15. Outcomes'
  <2>0. PICK m0 \in 1..tc_logged : m0 = tc_cur
    BY <1>1, <1>7
  <2>1. \A m \in Nat : m # m0 => \A t \in 1..tc_MaxSockets : Tcp!WholeOn(m, t)' <=> Tcp!WholeOn(m, t)
    <3>1. ASSUME NEW m \in Nat, m # m0
          PROVE  (\E i \in 1..Len(v) : v[i] = <<m, tc_Parts>>) <=> (\E i \in 1..Len(w) : w[i] = <<m, tc_Parts>>)
      <4>1. \A j \in 1..n : <<tc_cur, tc_sent + j>> # <<m, tc_Parts>>
        BY <2>0, <3>1
      <4>2. ASSUME NEW i \in 1..Len(v), v[i] = <<m, tc_Parts>>
            PROVE  \E h \in 1..Len(w) : w[h] = <<m, tc_Parts>>
        <5>1. i \in 1..Len(w) /\ v[i] = w[i]
          BY <1>13, <4>1, <4>2
        <5>2. QED
          BY <4>2, <5>1
      <4>3. ASSUME NEW i \in 1..Len(w), w[i] = <<m, tc_Parts>>
            PROVE  \E h \in 1..Len(v) : v[h] = <<m, tc_Parts>>
        <5>1. i \in 1..Len(v)
          BY <1>c, <1>n
        <5>2. v[i] = <<m, tc_Parts>>
          BY <1>c, <4>3
        <5>3. QED
          BY <5>1, <5>2
      <4>4. QED
        BY <4>2, <4>3
    <3>2. DOMAIN v = 1..Len(v) /\ DOMAIN w = 1..Len(w)
      OBVIOUS
    <3>3. ASSUME NEW m \in Nat, m # m0, NEW t \in 1..tc_MaxSockets
          PROVE  Tcp!WholeOn(m, t)' <=> Tcp!WholeOn(m, t)
      <4>1. CASE t = s
        <5>1. Tcp!WholeOn(m, t)' <=> \E i \in DOMAIN v : v[i] = <<m, tc_Parts>>
          BY <1>5, <4>1 DEF Tcp!WholeOn, Tcp!Part
        <5>2. Tcp!WholeOn(m, t) <=> \E i \in DOMAIN w : w[i] = <<m, tc_Parts>>
          BY <1>2, <1>3, <4>1 DEF Tcp!WholeOn, Tcp!Part
        <5>3. QED
          BY <3>1, <3>2, <3>3, <5>1, <5>2
      <4>2. CASE t # s
        BY <1>5, <4>2 DEF Tcp!WholeOn
      <4>3. QED
        BY <4>1, <4>2
    <3>4. QED
      BY <3>3
  <2>2. \A t \in 1..tc_MaxSockets : ~Tcp!WholeOn(m0, t)
    BY <1>1, <2>0, NotWhole
  <2>3. /\ tc_logged = m0 /\ tc_failed \subseteq 1..tc_logged /\ m0 \notin tc_failed /\ m0 \in Nat
        /\ tc_logged' = tc_logged /\ tc_failed' = tc_failed
    BY <1>1, <1>7, <2>0 DEF TcpInv, Ranges, Outcomes
  <2>d. Tcp!Done = (1..tc_logged) \ {m0} /\ Tcp!Done \subseteq Nat
    BY <2>0, <2>3 DEF Tcp!Done
  <2>i. /\ \A m \in Tcp!Done : m \notin tc_failed <=> \E t \in 1..tc_MaxSockets : Tcp!WholeOn(m, t)
        /\ \A t, u \in 1..tc_MaxSockets, m \in Tcp!Done : Tcp!WholeOn(m, t) /\ Tcp!WholeOn(m, u) => t = u
    BY DEF TcpInv, Outcomes
  <2>4. CASE tc_cur' = tc_cur
    <3>1. Tcp!Done' = Tcp!Done
      BY <1>1, <2>4 DEF Tcp!Done
    <3>2. tc_cur' \notin tc_failed'
      BY <2>0, <2>3, <2>4
    <3>3. \A m \in Tcp!Done, t \in 1..tc_MaxSockets : Tcp!WholeOn(m, t)' <=> Tcp!WholeOn(m, t)
      BY <2>1, <2>d
    <3>4. \A m \in Tcp!Done' : m \notin tc_failed' <=> \E t \in 1..tc_MaxSockets : Tcp!WholeOn(m, t)'
      BY <2>3, <2>i, <3>1, <3>3
    <3>5. \A t, u \in 1..tc_MaxSockets, m \in Tcp!Done' : Tcp!WholeOn(m, t)' /\ Tcp!WholeOn(m, u)' => t = u
      BY <2>i, <3>1, <3>3
    <3>6. QED
      BY <3>2, <3>4, <3>5 DEF Outcomes
  <2>5. CASE tc_cur' = 0 /\ tc_sent + n = tc_Parts
    <3>1. Tcp!Done' = Tcp!Done \cup {m0}
      BY <2>3, <2>5, <2>d DEF Tcp!Done
    <3>2. Tcp!WholeOn(m0, s)'
      <4>1. Len(v) \in DOMAIN v /\ v[Len(v)] = <<m0, tc_Parts>>
        BY <1>c, <1>n, <1>9, <2>0, <2>5
      <4>2. QED
        BY <1>5, <4>1 DEF Tcp!WholeOn, Tcp!Part
    <3>3. \A t \in 1..tc_MaxSockets : t # s => ~Tcp!WholeOn(m0, t)'
      BY <1>5, <2>2 DEF Tcp!WholeOn
    <3>4. \A m \in Tcp!Done, t \in 1..tc_MaxSockets : Tcp!WholeOn(m, t)' <=> Tcp!WholeOn(m, t)
      BY <2>1, <2>d
    <3>5. \A m \in Tcp!Done' : m \notin tc_failed' <=> \E t \in 1..tc_MaxSockets : Tcp!WholeOn(m, t)'
      BY <2>3, <2>i, <3>1, <3>2, <3>4
    <3>6. \A t, u \in 1..tc_MaxSockets, m \in Tcp!Done' : Tcp!WholeOn(m, t)' /\ Tcp!WholeOn(m, u)' => t = u
      BY <2>i, <3>1, <3>3, <3>4
    <3>7. tc_cur' \notin tc_failed'
      BY <2>3, <2>5
    <3>8. QED
      BY <3>5, <3>6, <3>7 DEF Outcomes
  <2>6. QED
    BY <1>1, <2>4, <2>5
<1>16. QED
  BY <1>10, <1>11, <1>12, <1>14, <1>15 DEF TcpInv

LEMMA TcpKeeps ==
    ASSUME TcpParameters, TcpInv, [Tcp!Next]_(Tcp!vars)
    PROVE  TcpInv'
<1>1. CASE UNCHANGED Tcp!vars
  BY <1>1 DEF Tcp!vars, TcpInv, Ranges, Stages, Opened, Streams, Origins, Outcomes, Chained, Ends,
     Tcp!Done, Tcp!WholeOn, Tcp!is_connected, Tcp!idle
<1>2. CASE Tcp!Next
  BY <1>2, ConstructStep, LogStep, TryStep, FailStep, SendStep, DestructStep DEF Tcp!Next
<1>3. QED
  BY <1>1, <1>2

\* Which client it is, and whether it connects with the first message.
TcpKind == tc_windows \in tc_Builds /\ tc_lazy \in BOOLEAN

LEMMA TcpKindKeeps == ASSUME TcpKind, [Tcp!Next]_(Tcp!vars) PROVE TcpKind'
<1>1. tc_windows' = tc_windows /\ tc_lazy' = tc_lazy
  BY DEF Tcp!vars, Tcp!Next, Tcp!Construct, Tcp!Log, Tcp!NoAddress, Tcp!Connects, Tcp!ConnectRefused,
     Tcp!NoSocket, Tcp!ConnectFails, Tcp!Send, Tcp!SendFails, Tcp!Destruct, Tcp!Throw, Tcp!ConnectBegins
<1>2. QED
  BY <1>1 DEF TcpKind

LEMMA TcpFollows ==
    ASSUME TcpParameters, TcpInv, TcpKind
    PROVE  Tcp!TypeOK /\ Tcp!StreamsAreWhole /\ Tcp!NoSocketLeaks
<1>1. ASSUME NEW s \in 1..tc_MaxSockets, tc_wire[s] # <<>>, tc_wire[s][Len(tc_wire[s])][2] < tc_Parts
      PROVE  s # tc_socket_ \/ tc_cur = tc_wire[s][Len(tc_wire[s])][1]
  <2>1. CASE s = tc_socket_
    <3>1. Ends(tc_wire[s])
      BY <2>1 DEF TcpInv, Streams, Tcp!is_connected, TcpParameters
    <3>2. tc_sent # 0 /\ tc_sent \in Nat
      BY <1>1, <3>1 DEF Ends, TcpInv, Ranges, TcpParameters
    <3>3. tc_wire[s][Len(tc_wire[s])] = <<tc_cur, tc_sent>>
      BY <3>1, <3>2 DEF Ends
    <3>4. QED
      BY <3>3
  <2>2. QED
    BY <2>1
<1>2. Tcp!StreamsAreWhole
  BY <1>1 DEF TcpInv, Streams, Chained, Outcomes, Tcp!StreamsAreWhole
<1>3. Tcp!NoSocketLeaks
  BY DEF TcpInv, Stages, Opened, Tcp!NoSocketLeaks, Tcp!idle, Tcp!is_connected
<1>4. Tcp!TypeOK
  BY DEF TcpInv, TcpKind, Ranges, Stages, Opened, Tcp!TypeOK, TcpParameters, Tcp!is_connected
<1>5. QED
  BY <1>2, <1>3, <1>4
------------------------------------------------------------------------------
(***************************************************************************)
(* The synchronous parts together: what is inductive of the part that runs *)
(* is so of their composition, which leaves the others alone.              *)
(***************************************************************************)
Logged == <<which, rg_vars, ro_vars, da_vars, co_vars, fi_vars, tc_vars>>

LoggingInv == /\ which = "registry" => RegInv
              /\ which = "rotating" => RotInv
              /\ which = "daily" => DayInv
              /\ which = "filter" => FilterInv
              /\ which = "tcp" => TcpInv /\ TcpKind

LEMMA LoggingBegins == LoggingInit => LoggingInv
<1> SUFFICES ASSUME LoggingInit PROVE LoggingInv
  OBVIOUS
<1>1. RegistryParameters /\ RotatingParameters /\ DailyParameters /\ FilterParameters /\ TcpParameters
  BY LoggingAssumption DEF LoggingParameters
<1>2. ASSUME which = "registry" PROVE RegInv
  BY <1>1, <1>2, RegBegins DEF LoggingInit
<1>3. ASSUME which = "tcp" PROVE TcpInv /\ TcpKind
  BY <1>1, <1>3, TcpInit DEF LoggingInit, Tcp!Init, TcpKind
<1>4. ASSUME which = "rotating" PROVE RotInv
  BY <1>1, <1>4, RotatingBegins DEF LoggingInit
<1>5. ASSUME which = "filter" PROVE FilterInv
  BY <1>1, <1>5, FilterBegins DEF LoggingInit
<1>6. ASSUME which = "daily" PROVE DayInv
  BY <1>1, <1>6, DailyBegins DEF LoggingInit
<1>7. QED
  BY <1>2, <1>3, <1>4, <1>5, <1>6 DEF LoggingInv

LEMMA LoggingKeeps == LoggingInv /\ [LoggingNext]_Logged => LoggingInv'
<1> SUFFICES ASSUME LoggingInv, [LoggingNext]_Logged PROVE LoggingInv'
  OBVIOUS
<1>1. RegistryParameters /\ RotatingParameters /\ DailyParameters /\ FilterParameters /\ TcpParameters
  BY LoggingAssumption DEF LoggingParameters
<1>2. which' = which
  BY DEF LoggingNext, Logged
<1>3. ASSUME which = "registry" PROVE RegInv'
  <2>1. [Reg!Next]_(Reg!vars)
    BY <1>3 DEF LoggingNext, Logged, rg_vars, Reg!vars, Reg!settings, Reg!io, Reg!history
  <2>2. QED
    BY <1>1, <1>3, <2>1, RegKeeps DEF LoggingInv
<1>4. ASSUME which = "tcp" PROVE TcpInv' /\ TcpKind'
  <2>1. [Tcp!Next]_(Tcp!vars)
    BY <1>4 DEF LoggingNext, Logged, tc_vars, Tcp!vars
  <2>2. QED
    BY <1>1, <1>4, <2>1, TcpKeeps, TcpKindKeeps DEF LoggingInv
<1>5. ASSUME which = "rotating" PROVE RotInv'
  <2>1. [Rot!Next]_(Rot!vars)
    BY <1>5 DEF LoggingNext, Logged, ro_vars, Rot!vars
  <2>2. QED
    BY <1>1, <1>5, <2>1, RotatingKeeps DEF LoggingInv
<1>6. ASSUME which = "filter" PROVE FilterInv'
  <2>1. [Fil!Next]_(Fil!vars)
    BY <1>6 DEF LoggingNext, Logged, fi_vars, Fil!vars
  <2>2. QED
    BY <1>1, <1>6, <2>1, FilterKeeps DEF LoggingInv
<1>7. ASSUME which = "daily" PROVE DayInv'
  <2>1. [Day!Next]_(Day!vars)
    BY <1>7 DEF LoggingNext, Logged, da_vars, Day!vars
  <2>2. QED
    BY <1>1, <1>7, <2>1, DailyKeeps DEF LoggingInv
<1>8. QED
  BY <1>2, <1>3, <1>4, <1>5, <1>6, <1>7 DEF LoggingInv

LEMMA LoggingAlways == LoggingSpec => []LoggingInv
BY LoggingBegins, LoggingKeeps, PTL DEF LoggingSpec, Logged

(***************************************************************************)
(* registry-inl.h, logger-inl.h, backtracer-inl.h: however loggers are     *)
(* made, registered, dropped, cloned and swapped, and whatever is set in   *)
(* which order, in a logger or through a clone that has its sinks: a       *)
(* logger of the map is found by its name as long as none is renamed,      *)
(* every logger the registry gives its settings to has the ones it gave    *)
(* last, and a backtrace is the last messages, as many as there is room    *)
(* for.                                                                    *)
(***************************************************************************)
THEOREM RegistryIsConsistent == LoggingSpec => []RegistryAgrees
<1>1. LoggingInv => RegistryAgrees
  <2> SUFFICES ASSUME LoggingInv, which = "registry"
               PROVE  Reg!TypeOK /\ Reg!MapAgrees /\ Reg!GlobalSettingsReach /\ Reg!BacktraceKeepsLast
    BY DEF RegistryAgrees
  <2>1. RegistryParameters /\ RegInv
    BY LoggingAssumption DEF LoggingParameters, LoggingInv
  <2>2. QED
    BY <2>1, RegFollows
<1>2. QED
  BY <1>1, LoggingAlways, PTL

(***************************************************************************)
(* tcp_client.h:118-140 and tcp_client-windows.h: on every connection the  *)
(* messages follow one another whole and in order, a torn one ends a dead  *)
(* connection, and of each message either all was sent, once, or an error  *)
(* was told. The one open socket is the one the client knows, and a sink   *)
(* that is gone has none, and has stopped Winsock as often as it has       *)
(* started it.                                                             *)
(***************************************************************************)
THEOREM TcpStreamsAreWhole == LoggingSpec => []TcpIsWhole
<1>1. LoggingInv => TcpIsWhole
  <2> SUFFICES ASSUME LoggingInv, which = "tcp"
               PROVE  Tcp!TypeOK /\ Tcp!StreamsAreWhole /\ Tcp!NoSocketLeaks
    BY DEF TcpIsWhole
  <2>1. TcpParameters /\ TcpInv /\ TcpKind
    BY LoggingAssumption DEF LoggingParameters, LoggingInv
  <2>2. QED
    BY <2>1, TcpFollows
<1>2. QED
  BY <1>1, LoggingAlways, PTL

(***************************************************************************)
(* rotating_file_sink-inl.h:63-118: through rotations, renames and opens   *)
(* that fail, and restarts, the files hold the messages in their order and *)
(* without a failure the latest of them, no file but one of a single       *)
(* message is longer than max_size_, and nothing is written to a file that *)
(* could not be opened.                                                    *)
(***************************************************************************)
THEOREM RotatedFilesAreTheLatest == LoggingSpec => []RotatingKeepsLatest
<1>1. LoggingInv => RotatingKeepsLatest
  <2> SUFFICES ASSUME LoggingInv, which = "rotating"
               PROVE  Rot!TypeOK /\ Rot!RotatingKeepsLatest /\ Rot!NeverWritesClosed
    BY DEF RotatingKeepsLatest
  <2>1. RotatingParameters /\ RotInv
    BY LoggingAssumption DEF LoggingParameters, LoggingInv
  <2>2. QED
    BY <2>1, RotatingFollows
<1>2. QED
  BY <1>1, LoggingAlways, PTL

(***************************************************************************)
(* daily_file_sink.h: rotated at midnight, the sink has the last max_files *)
(* of the files that it has opened, and of the earlier ones only as many   *)
(* as could not be removed or opened, and the first if midnight came       *)
(* between the constructor's readings of the clock: whatever files it has  *)
(* found at its start and however late messages come.                      *)
(***************************************************************************)
THEOREM LatestDaysAreRetained == LoggingSpec => []DailyRetains
<1>1. LoggingInv => DailyRetains
  <2> SUFFICES ASSUME LoggingInv, which = "daily"
               PROVE  Day!TypeOK /\ Day!DailyRetains
    BY DEF DailyRetains
  <2>1. DailyParameters /\ DayInv
    BY LoggingAssumption DEF LoggingParameters, LoggingInv
  <2>2. QED
    BY <2>1, DailyFollows
<1>2. QED
  BY <1>1, LoggingAlways, PTL

(***************************************************************************)
(* dup_filter_sink.h, dist_sink.h, ringbuffer_sink.h: whatever sinks are   *)
(* added and removed below, as long as none throws the sink that takes     *)
(* every level is told of all that was logged, in order, but for the       *)
(* duplicates that are still counted, and of no duplicate within the       *)
(* duration; and last_raw gives the last messages the ring was given.      *)
(***************************************************************************)
THEOREM FilteredMessagesAreToldOf == LoggingSpec => []FiltersAccount
<1>1. LoggingInv => FiltersAccount
  <2> SUFFICES ASSUME LoggingInv, which = "filter"
               PROVE  Fil!TypeOK /\ Fil!DuplicatesAreCounted /\ Fil!RingShowsTheLast
    BY DEF FiltersAccount
  <2>1. FilterParameters /\ FilterInv
    BY LoggingAssumption DEF LoggingParameters, LoggingInv
  <2>2. QED
    BY <2>1, FilterFollows
<1>2. QED
  BY <1>1, LoggingAlways, PTL
=============================================================================
