------------------------------- MODULE Registry -------------------------------
(***************************************************************************)
(* spdlog's registry (details/registry-inl.h, spdlog-inl.h) and what it    *)
(* sets in the loggers it holds (logger-inl.h), their backtraces           *)
(* (backtracer-inl.h) and the levels that come from the environment. Every *)
(* operation of the registry is one critical section of its mutex, and     *)
(* none calls another under it. A logger is made with one sink, whose own  *)
(* level lets everything pass; a clone has the sink of its original, and   *)
(* the formatter is the sink's. The thread of flush_every is one that      *)
(* calls flush_all from time to time.                                      *)
(***************************************************************************)
EXTENDS CircularQ, LogLevels, FiniteSets, TLC

CONSTANTS Loggers,     \* the logger objects
          Default,     \* the one the registry makes
          Name,        \* the name each is made with
          NoLogger,
          LevelsUsed, Formatters, Handlers,   \* what is set; a handler may be NoHandler
          NoHandler,
          Inputs,      \* the values of SPDLOG_LEVEL, see LogLevels
          TraceSizes,  \* the arguments of enable_backtrace
          MaxCalls     \* bound: the calls

VARIABLES obj,         \* the state of each logger; its sink has the name of who got it first
          formatters,  \* of each sink its formatter_
          made,        \* the loggers that exist
          loggers_,    \* the map: of each name its logger or NoLogger
          default_logger_, log_levels_, global_log_level_, flush_level_,
          formatter_, err_handler_, automatic_registration_, backtrace_n_messages_,
          flusher,     \* whether the periodic flusher runs
          out,         \* what a sink got in the last call
          unflushed,   \* the sinks that hold what is not flushed
          calls,
          \* For the properties: of each logger the messages since its backtrace was
          \* enabled or dumped; those whose settings are the registry's to give; and
          \* whether swap() has renamed a logger.
          since, inTouch, renamed

settings == <<log_levels_, global_log_level_, flush_level_, formatter_, err_handler_,
              automatic_registration_, backtrace_n_messages_>>
history == <<since, inTouch, renamed>>
io == <<out, unflushed>>
vars == <<obj, formatters, made, loggers_, default_logger_, settings, flusher, io, calls, history>>

Names == {Name[l] : l \in Loggers}

Registered == {loggers_[n] : n \in Names} \ {NoLogger}

Level(l) == obj[l].level

\* logger::logger: no backtrace, level info, never flushed by level.
NewLogger(l) ==
    [name |-> Name[l], level |-> info, flush |-> off, sink |-> l,
     handler |-> NoHandler, tracing |-> FALSE, ring |-> Disabled]

Init == /\ obj = [l \in Loggers |-> NewLogger(l)]
        /\ formatters = [s \in Loggers |-> "default"]
        /\ made = {Default}
        /\ loggers_ = [n \in Names |-> IF n = Name[Default] THEN Default ELSE NoLogger]
        /\ default_logger_ = Default
        /\ log_levels_ = <<>> /\ global_log_level_ = info /\ flush_level_ = off
        /\ formatter_ = "default" /\ err_handler_ = NoHandler
        /\ automatic_registration_ = TRUE /\ backtrace_n_messages_ = 0
        /\ flusher = FALSE /\ out = <<>> /\ unflushed = {} /\ calls = 0
        /\ since = [l \in Loggers |-> <<>>] /\ inTouch = {Default} /\ renamed = FALSE

Call == calls < MaxCalls /\ calls' = calls + 1

\* A call that writes nothing, and one that gives no formatter either.
Silent == out' = <<>> /\ UNCHANGED unflushed
Quiet == Silent /\ UNCHANGED formatters

SinksOf(ls) == {obj[l].sink : l \in ls}

\* set_formatter of these loggers: into their sinks.
FormatWith(f, ls) ==
    Silent /\ formatters' = [s \in Loggers |-> IF s \in SinksOf(ls) THEN f ELSE formatters[s]]

\* Those that stay in the map, after a change of it.
StillIn(touch, map) == touch \cap {map[n] : n \in Names}
-----------------------------------------------------------------------------
(* The loggers.                                                            *)

Make(l) == /\ Call /\ Quiet /\ l \notin made
           /\ made' = made \cup {l}
           /\ UNCHANGED <<obj, loggers_, default_logger_, settings, flusher, history>>

\* enable: a new ring, even if there was one.
Traced(o, n) == [o EXCEPT !.tracing = TRUE, !.ring = Create(n)]

\* disable: the ring stays.
Untraced(o) == [o EXCEPT !.tracing = FALSE]

Empties(ls) == [l \in Loggers |-> IF l \in ls THEN <<>> ELSE since[l]]

\* Of the loggers: set_level, flush_on, set_error_handler.
SetOne(l, field, value) ==
    /\ Call /\ Quiet /\ l \in made
    /\ obj' = [obj EXCEPT ![l] = [@ EXCEPT ![field] = value]]
    /\ inTouch' = inTouch \ {l}
    /\ UNCHANGED <<made, loggers_, default_logger_, settings, flusher, since, renamed>>

\* Of the loggers: set_formatter, which those that share the sink get too.
SetFormatterOf(l, f) ==
    /\ Call /\ FormatWith(f, {l}) /\ l \in made
    /\ inTouch' = {k \in inTouch : obj[k].sink # obj[l].sink}
    /\ UNCHANGED <<obj, made, loggers_, default_logger_, settings, flusher, since, renamed>>

EnableBacktraceOf(l, n) ==
    /\ Call /\ Quiet /\ l \in made
    /\ obj' = [obj EXCEPT ![l] = Traced(@, n)]
    /\ since' = Empties({l})
    /\ inTouch' = inTouch \ {l}
    /\ UNCHANGED <<made, loggers_, default_logger_, settings, flusher, renamed>>

DisableBacktraceOf(l) ==
    /\ Call /\ Quiet /\ l \in made
    /\ obj' = [obj EXCEPT ![l] = Untraced(@)]
    /\ inTouch' = inTouch \ {l}
    /\ UNCHANGED <<made, loggers_, default_logger_, settings, flusher, since, renamed>>

should_flush_(l, level) == level >= obj[l].flush /\ level # off

\* sink_it_ of these messages, one after the other; flush_ follows on some.
SinkIt(l, messages) ==
    /\ out' = messages
    /\ unflushed' =
         IF messages = <<>> THEN unflushed
         ELSE IF should_flush_(l, messages[Len(messages)].level) THEN unflushed \ SinksOf({l})
         ELSE unflushed \cup SinksOf({l})
    /\ UNCHANGED formatters

\* log: by the level to the sink, and in any case to the backtrace.
Log(l, level) ==
    LET msg == [level |-> level, number |-> calls]
        enabled == level >= Level(l)
    IN /\ Call /\ l \in made
       /\ enabled \/ obj[l].tracing
       /\ SinkIt(l, IF enabled THEN <<msg>> ELSE <<>>)
       /\ obj' = IF obj[l].tracing THEN [obj EXCEPT ![l].ring = PushBack(@, msg)] ELSE obj
       /\ since' = IF obj[l].tracing THEN [since EXCEPT ![l] = Append(@, msg)] ELSE since
       /\ UNCHANGED <<made, loggers_, default_logger_, settings, flusher, inTouch, renamed>>

\* spdlog::info and the like, SPDLOG_INFO and the like. Without a default logger
\* the program crashes: it may not get here.
LogDefault(level) == default_logger_ # NoLogger /\ Log(default_logger_, level)

Mark(text) == [level |-> info, number |-> text]

\* The ring after foreach_pop.
Emptied(q) == [q EXCEPT !.head = q.tail]

\* dump_backtrace_: without a look at the logger's level.
DumpBacktrace(l) ==
    /\ Call /\ l \in made /\ obj[l].tracing
    /\ SinkIt(l, <<Mark("start")>> \o Contents(obj[l].ring) \o <<Mark("end")>>)
    /\ obj' = [obj EXCEPT ![l].ring = Emptied(@)]
    /\ since' = Empties({l})
    /\ UNCHANGED <<made, loggers_, default_logger_, settings, flusher, inTouch, renamed>>

Flush(l) == /\ Call /\ l \in made
            /\ out' = <<>> /\ unflushed' = unflushed \ SinksOf({l})
            /\ UNCHANGED <<obj, formatters, made, loggers_, default_logger_, settings, flusher, history>>

\* clone() copies everything but the name: the ring as it is, and the pointers to the
\* sinks, not the sinks.
Clone(l, copy) ==
    /\ Call /\ Quiet /\ l \in made /\ copy \notin made
    /\ made' = made \cup {copy}
    /\ obj' = [obj EXCEPT ![copy] = [obj[l] EXCEPT !.name = Name[copy]]]
    /\ since' = [since EXCEPT ![copy] = since[l]]
    /\ UNCHANGED <<loggers_, default_logger_, settings, flusher, inTouch, renamed>>

\* swap() changes the names too; the map's keys do not follow.
Swap(l, k) == /\ Call /\ Quiet /\ l \in made /\ k \in made /\ l # k
              /\ obj' = [obj EXCEPT ![l] = obj[k], ![k] = obj[l]]
              /\ since' = [since EXCEPT ![l] = since[k], ![k] = since[l]]
              /\ inTouch' = inTouch \ {l, k} /\ renamed' = TRUE
              /\ UNCHANGED <<made, loggers_, default_logger_, settings, flusher>>
-----------------------------------------------------------------------------
(* The registry.                                                           *)

\* register_logger_ throws if the name is taken.
Free(l) == loggers_[obj[l].name] = NoLogger

RegisterLogger(l) ==
    /\ Call /\ Quiet /\ l \in made /\ Free(l)
    /\ loggers_' = [loggers_ EXCEPT ![obj[l].name] = l]
    /\ inTouch' = inTouch \ {l}
    /\ UNCHANGED <<obj, made, default_logger_, settings, flusher, since, renamed>>

\* The settings initialize_logger gives, beside the formatter.
Initialized(o) ==
    LET named == o.name \in DOMAIN log_levels_
        set == [o EXCEPT !.handler = IF err_handler_ # NoHandler THEN err_handler_ ELSE @,
                         !.level = IF named THEN log_levels_[o.name] ELSE global_log_level_,
                         !.flush = flush_level_]
    IN IF backtrace_n_messages_ > 0 THEN Traced(set, backtrace_n_messages_) ELSE set

\* When the name is taken it throws, with the settings already given.
InitializeLogger(l) ==
    /\ Call /\ FormatWith(formatter_, {l}) /\ l \in made
    /\ obj' = [obj EXCEPT ![l] = Initialized(@)]
    /\ since' = IF backtrace_n_messages_ > 0 THEN Empties({l}) ELSE since
    /\ LET registers == automatic_registration_ /\ Free(l)
       IN /\ loggers_' = IF registers THEN [loggers_ EXCEPT ![obj[l].name] = l] ELSE loggers_
          /\ inTouch' = inTouch \ {l}
    /\ UNCHANGED <<made, default_logger_, settings, flusher, renamed>>

\* synchronous_factory::create: of a new logger; when it throws nothing remains.
CreateLogger(l) ==
    /\ Call /\ FormatWith(formatter_, {l}) /\ l \notin made
    /\ automatic_registration_ => Free(l)
    /\ made' = made \cup {l}
    /\ obj' = [obj EXCEPT ![l] = Initialized(@)]
    /\ loggers_' = IF automatic_registration_ THEN [loggers_ EXCEPT ![obj[l].name] = l] ELSE loggers_
    /\ inTouch' = IF automatic_registration_ THEN inTouch \cup {l} ELSE inTouch
    /\ UNCHANGED <<default_logger_, settings, flusher, since, renamed>>

\* The map without the default logger's name, and with this logger under its own.
WithDefault(l) ==
    [n \in Names |->
       IF l # NoLogger /\ n = obj[l].name THEN l
       ELSE IF default_logger_ # NoLogger /\ n = obj[default_logger_].name THEN NoLogger
       ELSE loggers_[n]]

\* What is registered under the name is replaced without an exception.
SetDefaultLogger(l) ==
    /\ Call /\ Quiet /\ l \in made \cup {NoLogger}
    /\ loggers_' = WithDefault(l)
    /\ default_logger_' = l
    /\ inTouch' = StillIn(inTouch, loggers_')
    /\ UNCHANGED <<obj, made, settings, flusher, since, renamed>>

\* LOG_SET_FILE and LOG_TO_STDERR of log_spd.h: a new logger becomes the default.
LogTo(l) ==
    /\ Call /\ FormatWith(formatter_, {l}) /\ l \notin made /\ automatic_registration_ /\ Free(l)
    /\ made' = made \cup {l}
    /\ obj' = [obj EXCEPT ![l] = Initialized(@)]
    /\ loggers_' = WithDefault(l)
    /\ default_logger_' = l
    /\ inTouch' = StillIn(inTouch, loggers_') \cup {l}
    /\ UNCHANGED <<settings, flusher, since, renamed>>

InAll(new) == [l \in Loggers |-> IF l \in Registered THEN new[l] ELSE obj[l]]

SetFormatter(f) ==
    /\ Call /\ FormatWith(f, Registered)
    /\ formatter_' = f
    /\ UNCHANGED <<obj, made, loggers_, default_logger_, log_levels_, global_log_level_, flush_level_,
                   err_handler_, automatic_registration_, backtrace_n_messages_, flusher, history>>

EnableBacktrace(n) ==
    /\ Call /\ Quiet
    /\ backtrace_n_messages_' = n
    /\ obj' = InAll([l \in Loggers |-> Traced(obj[l], n)])
    /\ since' = Empties(Registered)
    /\ UNCHANGED <<made, loggers_, default_logger_, log_levels_, global_log_level_, flush_level_,
                   formatter_, err_handler_, automatic_registration_, flusher, inTouch, renamed>>

DisableBacktrace ==
    /\ Call /\ Quiet
    /\ backtrace_n_messages_' = 0
    /\ obj' = InAll([l \in Loggers |-> Untraced(obj[l])])
    /\ UNCHANGED <<made, loggers_, default_logger_, log_levels_, global_log_level_, flush_level_,
                   formatter_, err_handler_, automatic_registration_, flusher, history>>

\* log_levels_ stays as it was.
SetLevel(level) ==
    /\ Call /\ Quiet
    /\ global_log_level_' = level
    /\ obj' = InAll([l \in Loggers |-> [obj[l] EXCEPT !.level = level]])
    /\ UNCHANGED <<made, loggers_, default_logger_, log_levels_, flush_level_, formatter_,
                   err_handler_, automatic_registration_, backtrace_n_messages_, flusher, history>>

FlushOn(level) ==
    /\ Call /\ Quiet
    /\ flush_level_' = level
    /\ obj' = InAll([l \in Loggers |-> [obj[l] EXCEPT !.flush = level]])
    /\ UNCHANGED <<made, loggers_, default_logger_, log_levels_, global_log_level_, formatter_,
                   err_handler_, automatic_registration_, backtrace_n_messages_, flusher, history>>

SetErrorHandler(h) ==
    /\ Call /\ Quiet
    /\ err_handler_' = h
    /\ obj' = InAll([l \in Loggers |-> [obj[l] EXCEPT !.handler = h]])
    /\ UNCHANGED <<made, loggers_, default_logger_, log_levels_, global_log_level_, flush_level_,
                   formatter_, automatic_registration_, backtrace_n_messages_, flusher, history>>

SetAutomaticRegistration(auto) ==
    /\ Call /\ Quiet
    /\ automatic_registration_' = auto
    /\ UNCHANGED <<obj, made, loggers_, default_logger_, log_levels_, global_log_level_, flush_level_,
                   formatter_, err_handler_, backtrace_n_messages_, flusher, history>>

\* set_levels: the map's keys are the names.
SetLevels(levels, global) ==
    /\ log_levels_' = levels
    /\ global_log_level_' = IF global = NoLevel THEN global_log_level_ ELSE global
    /\ obj' = [l \in Loggers |->
                 IF l \notin Registered THEN obj[l]
                 ELSE LET n == CHOOSE n \in Names : loggers_[n] = l
                      IN [obj[l] EXCEPT !.level = IF n \in DOMAIN levels THEN levels[n]
                                                  ELSE IF global = NoLevel THEN @ ELSE global]]

\* load_env_levels, or an argument of load_argv_levels.
LoadLevels(tokens) ==
    /\ Call /\ Quiet /\ tokens # <<>>
    /\ SetLevels(Levels(tokens), GlobalLevel(tokens))
    /\ UNCHANGED <<made, loggers_, default_logger_, flush_level_, formatter_, err_handler_,
                   automatic_registration_, backtrace_n_messages_, flusher, history>>

Dropped(n) == [loggers_ EXCEPT ![n] = NoLogger]

\* MUTANT of Drop: the default logger stays the default.
DropFromMap(n) ==
    /\ Call /\ Quiet
    /\ loggers_' = Dropped(n)
    /\ inTouch' = StillIn(inTouch, loggers_')
    /\ UNCHANGED <<obj, made, default_logger_, settings, flusher, since, renamed>>

Drop(n) ==
    /\ Call /\ Quiet
    /\ loggers_' = Dropped(n)
    /\ default_logger_' = IF default_logger_ # NoLogger /\ obj[default_logger_].name = n
                          THEN NoLogger ELSE default_logger_
    /\ inTouch' = StillIn(inTouch, loggers_')
    /\ UNCHANGED <<obj, made, settings, flusher, since, renamed>>

DropAll == /\ Call /\ Quiet
           /\ loggers_' = [n \in Names |-> NoLogger] /\ default_logger_' = NoLogger
           /\ inTouch' = {}
           /\ UNCHANGED <<obj, made, settings, flusher, since, renamed>>

\* An interval of zero starts no thread; the one before is joined.
FlushEvery(interval) ==
    /\ Call /\ Quiet
    /\ flusher' = (interval > 0)
    /\ UNCHANGED <<obj, made, loggers_, default_logger_, settings, history>>

\* The flusher's thread, or the user.
FlushAll == /\ flusher \/ calls < MaxCalls
            /\ out' = <<>> /\ unflushed' = unflushed \ SinksOf(Registered)
            /\ UNCHANGED <<obj, formatters, made, loggers_, default_logger_, settings, flusher, calls,
                           history>>

\* The pool is released last, see AsyncLogging.
Shutdown == /\ Call /\ Quiet
            /\ flusher' = FALSE
            /\ loggers_' = [n \in Names |-> NoLogger] /\ default_logger_' = NoLogger
            /\ inTouch' = {}
            /\ UNCHANGED <<obj, made, settings, since, renamed>>

LoggerStep(l) ==
    \/ Make(l) \/ DisableBacktraceOf(l) \/ DumpBacktrace(l) \/ Flush(l)
    \/ RegisterLogger(l) \/ InitializeLogger(l) \/ CreateLogger(l) \/ LogTo(l)
    \/ \E v \in LevelsUsed : SetOne(l, "level", v) \/ SetOne(l, "flush", v) \/ Log(l, v)
    \/ \E f \in Formatters : SetFormatterOf(l, f)
    \/ \E h \in Handlers : SetOne(l, "handler", h)
    \/ \E n \in TraceSizes : EnableBacktraceOf(l, n)
    \/ \E k \in Loggers : Clone(l, k) \/ Swap(l, k)

RegistryStep ==
    \/ \E l \in Loggers \cup {NoLogger} : SetDefaultLogger(l)
    \/ \E f \in Formatters : SetFormatter(f)
    \/ \E n \in TraceSizes : EnableBacktrace(n)
    \/ \E v \in LevelsUsed : SetLevel(v) \/ FlushOn(v) \/ LogDefault(v)
    \/ \E h \in Handlers : SetErrorHandler(h)
    \/ \E tokens \in Inputs : LoadLevels(tokens)
    \/ \E b \in BOOLEAN : SetAutomaticRegistration(b)
    \/ \E n \in Names : Drop(n)
    \/ \E interval \in {0, 5} : FlushEvery(interval)
    \/ DisableBacktrace \/ DropAll \/ FlushAll \/ Shutdown

Next == (\E l \in Loggers : LoggerStep(l)) \/ RegistryStep

Spec == Init /\ [][Next]_vars
------------------------------------------------------------------------------
Message(m) == m.level \in trace..off

TypeOK ==
    /\ made \subseteq Loggers /\ default_logger_ \in made \cup {NoLogger}
    /\ loggers_ \in [Names -> made \cup {NoLogger}]
    /\ \A l \in Loggers :
         /\ obj[l].name \in Names /\ obj[l].level \in trace..off /\ obj[l].flush \in trace..off
         /\ obj[l].sink \in Loggers /\ obj[l].handler \in Handlers
         /\ obj[l].tracing => obj[l].ring.max > 0
    /\ formatters \in [Loggers -> Formatters]
    /\ DOMAIN log_levels_ \subseteq STRING
    /\ global_log_level_ \in trace..off /\ flush_level_ \in trace..off
    /\ backtrace_n_messages_ \in TraceSizes \cup {0} /\ flusher \in BOOLEAN
    /\ unflushed \subseteq SinksOf(made) /\ inTouch \subseteq Registered
    /\ calls \in 0..MaxCalls

(***************************************************************************)
(* The default logger is the one registered under its name                 *)
(* (registry-inl.h:111), and every logger is under its name: by whatever   *)
(* sequence of create, register, drop and set_default_logger. swap() of    *)
(* loggers, which exchanges their names, is the exception.                 *)
(***************************************************************************)
MapAgrees ==
    ~renamed =>
        /\ default_logger_ # NoLogger => loggers_[obj[default_logger_].name] = default_logger_
        /\ \A n \in Names : loggers_[n] # NoLogger => obj[loggers_[n]].name = n

(***************************************************************************)
(* A logger the registry made and still holds has the global formatter,    *)
(* error handler, flush level and room of the backtrace (spdlog.h:27),     *)
(* those set before it was made and those set after, unless somebody has   *)
(* set one of them in the logger itself, or the formatter in a logger with *)
(* the same sink: a clone of it has its sinks (logger-inl.h:158-163), and  *)
(* set_formatter writes into them (logger-inl.h:84-99).                    *)
(***************************************************************************)
GlobalSettingsReach ==
    \A l \in inTouch :
        /\ formatters[obj[l].sink] = formatter_ /\ obj[l].handler = err_handler_
        /\ obj[l].flush = flush_level_
        /\ (IF obj[l].tracing THEN obj[l].ring.max - 1 ELSE 0) = backtrace_n_messages_

LastOf(s, n) == SubSeq(s, IF Len(s) > n THEN Len(s) - n + 1 ELSE 1, Len(s))

(***************************************************************************)
(* What a dump will write are the last messages given to the logger since  *)
(* its backtrace was enabled or dumped, in order, as many as there is room *)
(* for and of whatever level (logger.h:298).                               *)
(***************************************************************************)
BacktraceKeepsLast ==
    \A l \in made : obj[l].tracing =>
        Contents(obj[l].ring) = LastOf(since[l], obj[l].ring.max - 1)
==============================================================================
