------------------------------- MODULE Logging -------------------------------
(***************************************************************************)
(* The synchronous parts of spdlog, one in each behaviour: `which` is      *)
(* chosen once and the variables of the others stay 0. What begins with    *)
(* rg_ is of the registry, with ro_ of the rotating files, da_ of the      *)
(* daily ones, co_ of the consoles, fi_ of the filters, and tc_ of the     *)
(* TCP sink; their modules say what it is.                                 *)
(***************************************************************************)
EXTENDS CircularQ, FiniteSets, TLC

CONSTANTS NoLogger,
          rg_Loggers, rg_Default, rg_Name, rg_LevelsUsed, rg_Formatters, rg_Handlers,
          rg_NoHandler, rg_Inputs, rg_TraceSizes, rg_MaxCalls,
          ro_MaxFiles, ro_MaxSize, ro_Sizes, ro_MaxMessages, ro_MaxFaults, ro_MaxOpens,
          da_MaxFiles, da_RotationHalves, da_Truncate, da_LastDay, da_MaxFaults, da_Delay,
          co_Midnight, co_MaxWidth, co_Refresh, co_FirstPatterns, co_OtherPatterns,
          co_FirstKinds, co_Messages, co_Times, co_MaxMessages,
          fi_Payloads, fi_SkipMax, fi_RingItems, fi_LastTime, fi_Delay, fi_MaxLogged,
          fi_MaxFaults, fi_MaxChanges,
          tc_Builds, tc_Addresses, tc_Parts, tc_MaxMessages, tc_MaxSockets

VARIABLES which,
          rg_obj, rg_formatters, rg_made, rg_loggers_, rg_default_logger_, rg_log_levels_,
          rg_global_log_level_,
          rg_flush_level_, rg_formatter_, rg_err_handler_, rg_automatic_registration_,
          rg_backtrace_n_messages_, rg_flusher, rg_out, rg_unflushed, rg_calls, rg_since,
          rg_inTouch, rg_renamed,
          ro_files, ro_isOpen, ro_current_size_, ro_alive, ro_sent, ro_sizes, ro_faults,
          ro_opens, ro_wrote,
          da_now, da_rotation, da_alive, da_rotation_tp_, da_file, da_isOpen, da_filenames_q_,
          da_files, da_faults, da_opened, da_missed,
          co_now, co_sinks, co_screens, co_seen, co_last,
          fi_now, fi_sinks_, fi_ringLevel, fi_q_, fi_got, fi_last_msg_time_,
          fi_last_msg_payload_, fi_skip_counter_, fi_logged, fi_faults, fi_changes,
          tc_windows, tc_alive, tc_lazy, tc_socket_, tc_rp, tc_cur, tc_sent, tc_open,
          tc_sockets, tc_wsa, tc_wire, tc_logged, tc_failed, tc_tried

rg_vars == <<rg_obj, rg_formatters, rg_made, rg_loggers_, rg_default_logger_,
             rg_log_levels_, rg_global_log_level_, rg_flush_level_, rg_formatter_, rg_err_handler_,
             rg_automatic_registration_, rg_backtrace_n_messages_, rg_flusher, rg_out,
             rg_unflushed, rg_calls, rg_since, rg_inTouch, rg_renamed>>
ro_vars == <<ro_files, ro_isOpen, ro_current_size_, ro_alive, ro_sent, ro_sizes, ro_faults,
             ro_opens, ro_wrote>>
da_vars == <<da_now, da_rotation, da_alive, da_rotation_tp_, da_file, da_isOpen,
             da_filenames_q_, da_files, da_faults, da_opened, da_missed>>
co_vars == <<co_now, co_sinks, co_screens, co_seen, co_last>>
fi_vars == <<fi_now, fi_sinks_, fi_ringLevel, fi_q_, fi_got, fi_last_msg_time_,
             fi_last_msg_payload_, fi_skip_counter_, fi_logged, fi_faults, fi_changes>>
tc_vars == <<tc_windows, tc_alive, tc_lazy, tc_socket_, tc_rp, tc_cur, tc_sent, tc_open,
             tc_sockets, tc_wsa, tc_wire, tc_logged, tc_failed, tc_tried>>
Reg == INSTANCE Registry
       WITH Loggers <- rg_Loggers, Default <- rg_Default, Name <- rg_Name,
            LevelsUsed <- rg_LevelsUsed, Formatters <- rg_Formatters,
            Handlers <- rg_Handlers, NoHandler <- rg_NoHandler, Inputs <- rg_Inputs,
            TraceSizes <- rg_TraceSizes, MaxCalls <- rg_MaxCalls, obj <- rg_obj,
            formatters <- rg_formatters, made <- rg_made, loggers_ <- rg_loggers_,
            default_logger_ <- rg_default_logger_, log_levels_ <- rg_log_levels_,
            global_log_level_ <- rg_global_log_level_, flush_level_ <- rg_flush_level_,
            formatter_ <- rg_formatter_, err_handler_ <- rg_err_handler_,
            automatic_registration_ <- rg_automatic_registration_,
            backtrace_n_messages_ <- rg_backtrace_n_messages_, flusher <- rg_flusher,
            out <- rg_out, unflushed <- rg_unflushed, calls <- rg_calls, since <- rg_since,
            inTouch <- rg_inTouch, renamed <- rg_renamed

Rot == INSTANCE RotatingFiles
       WITH MaxFiles <- ro_MaxFiles, MaxSize <- ro_MaxSize, Sizes <- ro_Sizes,
            MaxMessages <- ro_MaxMessages, MaxFaults <- ro_MaxFaults,
            MaxOpens <- ro_MaxOpens, files <- ro_files, isOpen <- ro_isOpen,
            current_size_ <- ro_current_size_, alive <- ro_alive, sent <- ro_sent,
            sizes <- ro_sizes, faults <- ro_faults, opens <- ro_opens, wrote <- ro_wrote

Day == INSTANCE DailyFiles
       WITH MaxFiles <- da_MaxFiles, RotationHalves <- da_RotationHalves,
            Truncate <- da_Truncate, LastDay <- da_LastDay, MaxFaults <- da_MaxFaults,
            Delay <- da_Delay, now <- da_now, rotation <- da_rotation, alive <- da_alive,
            rotation_tp_ <- da_rotation_tp_, file <- da_file, isOpen <- da_isOpen,
            filenames_q_ <- da_filenames_q_, files <- da_files, faults <- da_faults,
            opened <- da_opened, missed <- da_missed

Con == INSTANCE ConsoleSinks
       WITH Midnight <- co_Midnight, MaxWidth <- co_MaxWidth, Refresh <- co_Refresh,
            FirstPatterns <- co_FirstPatterns, OtherPatterns <- co_OtherPatterns,
            FirstKinds <- co_FirstKinds, Messages <- co_Messages, Times <- co_Times,
            MaxMessages <- co_MaxMessages, now <- co_now, sinks <- co_sinks,
            screens <- co_screens, seen <- co_seen, last <- co_last

Fil == INSTANCE FilterSinks
       WITH Payloads <- fi_Payloads, SkipMax <- fi_SkipMax, RingItems <- fi_RingItems,
            LastTime <- fi_LastTime, Delay <- fi_Delay, MaxLogged <- fi_MaxLogged,
            MaxFaults <- fi_MaxFaults, MaxChanges <- fi_MaxChanges, now <- fi_now,
            sinks_ <- fi_sinks_, ringLevel <- fi_ringLevel, q_ <- fi_q_, got <- fi_got,
            last_msg_time_ <- fi_last_msg_time_, last_msg_payload_ <- fi_last_msg_payload_,
            skip_counter_ <- fi_skip_counter_, logged <- fi_logged, faults <- fi_faults,
            changes <- fi_changes

Tcp == INSTANCE TcpSink
       WITH Builds <- tc_Builds, Addresses <- tc_Addresses, Parts <- tc_Parts,
            MaxMessages <- tc_MaxMessages, MaxSockets <- tc_MaxSockets,
            windows <- tc_windows, alive <- tc_alive, lazy <- tc_lazy,
            socket_ <- tc_socket_, rp <- tc_rp, cur <- tc_cur, sent <- tc_sent,
            open <- tc_open, sockets <- tc_sockets, wsa <- tc_wsa, wire <- tc_wire,
            logged <- tc_logged, failed <- tc_failed, tried <- tc_tried
------------------------------------------------------------------------------
(* What the constants are. A token of SPDLOG_LEVEL is a name and a level,  *)
(* one of them alone, or nothing (see LogLevels).                          *)
Token == {t \in Seq(STRING) : Len(t) <= 2}

RegistryParameters ==
    /\ rg_Default \in rg_Loggers /\ NoLogger \notin rg_Loggers
    /\ rg_Name \in [rg_Loggers -> STRING] /\ rg_LevelsUsed \subseteq Reg!trace..Reg!off
    /\ "default" \in rg_Formatters /\ rg_NoHandler \in rg_Handlers
    /\ rg_TraceSizes \subseteq Nat /\ rg_MaxCalls \in Nat
    /\ \A tokens \in rg_Inputs : tokens \in Seq(Token)

RotatingParameters ==
    /\ ro_MaxFiles \in Nat /\ ro_MaxSize \in Nat /\ ro_Sizes \subseteq Nat
    /\ ro_MaxMessages \in Nat /\ ro_MaxFaults \in Nat /\ ro_MaxOpens \in Nat

DailyParameters ==
    /\ da_MaxFiles \in Nat \ {0} /\ da_RotationHalves \subseteq {0, 1} /\ da_LastDay \in Nat \ {0}
    /\ da_MaxFaults \in Nat /\ da_Delay \in Nat

FilterParameters ==
    /\ fi_SkipMax \in Nat /\ fi_LastTime \in Nat /\ fi_SkipMax < fi_LastTime /\ fi_Delay \in Nat
    /\ fi_RingItems \in Nat /\ fi_MaxLogged \in Nat /\ fi_MaxFaults \in Nat /\ fi_MaxChanges \in Nat
    /\ Unused \notin fi_Payloads

TcpParameters ==
    /\ tc_Parts \in Nat \ {0} /\ tc_Addresses \in Nat /\ tc_Builds \subseteq BOOLEAN
    /\ tc_MaxMessages \in Nat /\ tc_MaxSockets \in Nat

LoggingParameters == /\ RegistryParameters /\ RotatingParameters /\ DailyParameters
                     /\ FilterParameters /\ TcpParameters

ASSUME LoggingAssumption == LoggingParameters
------------------------------------------------------------------------------
NoReg == /\ rg_obj = 0 /\ rg_formatters = 0 /\ rg_made = 0 /\ rg_loggers_ = 0 /\ rg_default_logger_ = 0
         /\ rg_log_levels_ = 0 /\ rg_global_log_level_ = 0 /\ rg_flush_level_ = 0
         /\ rg_formatter_ = 0 /\ rg_err_handler_ = 0 /\ rg_automatic_registration_ = 0
         /\ rg_backtrace_n_messages_ = 0 /\ rg_flusher = 0 /\ rg_out = 0 /\ rg_unflushed = 0
         /\ rg_calls = 0 /\ rg_since = 0 /\ rg_inTouch = 0 /\ rg_renamed = 0
NoRot == /\ ro_files = 0 /\ ro_isOpen = 0 /\ ro_current_size_ = 0 /\ ro_alive = 0 /\ ro_sent = 0
         /\ ro_sizes = 0 /\ ro_faults = 0 /\ ro_opens = 0 /\ ro_wrote = 0
NoDay == /\ da_now = 0 /\ da_rotation = 0 /\ da_alive = 0 /\ da_rotation_tp_ = 0 /\ da_file = 0
         /\ da_isOpen = 0 /\ da_filenames_q_ = 0 /\ da_files = 0 /\ da_faults = 0 /\ da_opened = 0
         /\ da_missed = 0
NoCon == co_now = 0 /\ co_sinks = 0 /\ co_screens = 0 /\ co_seen = 0 /\ co_last = 0
NoFil == /\ fi_now = 0 /\ fi_sinks_ = 0 /\ fi_ringLevel = 0 /\ fi_q_ = 0 /\ fi_got = 0
         /\ fi_last_msg_time_ = 0 /\ fi_last_msg_payload_ = 0 /\ fi_skip_counter_ = 0
         /\ fi_logged = 0 /\ fi_faults = 0 /\ fi_changes = 0
NoTcp == /\ tc_windows = 0 /\ tc_alive = 0 /\ tc_lazy = 0 /\ tc_socket_ = 0 /\ tc_rp = 0
         /\ tc_cur = 0 /\ tc_sent = 0 /\ tc_open = 0 /\ tc_sockets = 0 /\ tc_wsa = 0
         /\ tc_wire = 0 /\ tc_logged = 0 /\ tc_failed = 0 /\ tc_tried = 0

Components == {"registry", "rotating", "daily", "console", "filter", "tcp"}

LoggingInit ==
    /\ which \in Components
    /\ IF which = "registry" THEN Reg!Init ELSE NoReg
    /\ IF which = "rotating" THEN Rot!Init ELSE NoRot
    /\ IF which = "daily" THEN Day!Init ELSE NoDay
    /\ IF which = "console" THEN Con!Init ELSE NoCon
    /\ IF which = "filter" THEN Fil!Init ELSE NoFil
    /\ IF which = "tcp" THEN Tcp!Init ELSE NoTcp

LoggingNext ==
    /\ UNCHANGED which
    /\ IF which = "registry" THEN Reg!Next ELSE UNCHANGED rg_vars
    /\ IF which = "rotating" THEN Rot!Next ELSE UNCHANGED ro_vars
    /\ IF which = "daily" THEN Day!Next ELSE UNCHANGED da_vars
    /\ IF which = "console" THEN Con!Next ELSE UNCHANGED co_vars
    /\ IF which = "filter" THEN Fil!Next ELSE UNCHANGED fi_vars
    /\ IF which = "tcp" THEN Tcp!Next ELSE UNCHANGED tc_vars

LoggingSpec == LoggingInit /\ [][LoggingNext]_<<which, rg_vars, ro_vars, da_vars, co_vars,
                                                fi_vars, tc_vars>>

(***************************************************************************)
(* The registry's map, its settings and the loggers it knows agree, also   *)
(* where clones share the sinks that hold the formatter, and a backtrace   *)
(* is the last messages (registry-inl.h, logger-inl.h:84-163).             *)
(***************************************************************************)
RegistryAgrees == which = "registry" => /\ Reg!TypeOK /\ Reg!MapAgrees
                                        /\ Reg!GlobalSettingsReach /\ Reg!BacktraceKeepsLast

(***************************************************************************)
(* The rotated files hold the last messages in order, none written to a    *)
(* file that is not open (rotating_file_sink-inl.h:63-118).                *)
(***************************************************************************)
RotatingKeepsLatest ==
    which = "rotating" => Rot!TypeOK /\ Rot!RotatingKeepsLatest /\ Rot!NeverWritesClosed

(***************************************************************************)
(* Rotated at midnight, a daily sink retains the files it has opened last, *)
(* and one more after a midnight in its constructor                        *)
(* (daily_file_sink.h:62-70, 80-175).                                      *)
(***************************************************************************)
DailyRetains == which = "daily" => Day!TypeOK /\ Day!DailyRetains

(***************************************************************************)
(* "If max_files > 0, retain only the last max_files and delete previous"  *)
(* (daily_file_sink.h:42), without the one more.                           *)
(***************************************************************************)
OnlyTheLastRemain == which = "daily" => Day!OnlyTheLastRemain

(***************************************************************************)
(* A line is what its pattern says of its message, the zone at most ten    *)
(* seconds old (pattern_formatter-inl.h).                                  *)
(***************************************************************************)
LinesFollowThePattern ==
    which = "console" => Con!TypeOK /\ Con!LinesFollowThePattern /\ Con!ZoneIsRecent

(***************************************************************************)
(* A console colours the range of its own pattern, not one that another    *)
(* sink has left in the message (ansicolor_sink-inl.h:41-67).              *)
(***************************************************************************)
ColoursAreOwn == which = "console" => Con!ColoursAreOwn

(***************************************************************************)
(* Nothing that is filtered out is lost from the count, and the ring shows *)
(* the last messages it was given (dup_filter_sink.h:53-86,                *)
(* ringbuffer_sink.h:28-62).                                               *)
(***************************************************************************)
FiltersAccount ==
    which = "filter" => Fil!TypeOK /\ Fil!DuplicatesAreCounted /\ Fil!RingShowsTheLast

(***************************************************************************)
(* The note of the header's example counts three of the message that was   *)
(* logged three times (dup_filter_sink.h:26-33).                           *)
(***************************************************************************)
TheExampleSkipsThree == which = "filter" => Fil!TheExampleSkipsThree

(***************************************************************************)
(* What arrives of a message on a connection is all of it or the           *)
(* connection's end, and no socket is forgotten open (tcp_client.h).       *)
(***************************************************************************)
TcpIsWhole == which = "tcp" => Tcp!TypeOK /\ Tcp!StreamsAreWhole /\ Tcp!NoSocketLeaks
=============================================================================
