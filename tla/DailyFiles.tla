------------------------------ MODULE DailyFiles ------------------------------
(***************************************************************************)
(* daily_file_sink (sinks/daily_file_sink.h): a file per day, changed at   *)
(* the rotation time, of which the last max_files are kept. Time goes in   *)
(* half days, and a file is named by its day. A message may be older than  *)
(* the moment it is written: an asynchronous logger's or one of a          *)
(* backtrace. Programs end and others follow.                              *)
(***************************************************************************)
EXTENDS CircularQ, FiniteSets

CONSTANTS MaxFiles,            \* max_files_, above 0
          RotationHalves,      \* the rotation times of day: 0 midnight, 1 noon
          Truncate,            \* truncate_
          LastDay, MaxFaults, Delay   \* bounds: of the clock, and a message's age

VARIABLES now,
          rotation,            \* rotation_h_ and rotation_m_, chosen once
          alive, rotation_tp_,
          file,                \* file_helper_: its name, a day
          isOpen,
          filenames_q_,
          files,               \* the files there are, with the time of the last message
          faults,
          opened,              \* the days of the files this sink opened, in order
          missed               \* 1 if the first of them never got into filenames_q_, or 0

vars == <<now, rotation, alive, rotation_tp_, file, isOpen, filenames_q_, files, faults, opened,
          missed>>
clock == <<now, rotation>>

Days == 0..LastDay
DayOf(t) == t \div 2
NoDay == -1
NoMessage == -1

Init == /\ now = 2 /\ rotation \in RotationHalves
        /\ alive = FALSE /\ rotation_tp_ = 0 /\ file = NoDay /\ isOpen = FALSE
        /\ filenames_q_ = Disabled
        /\ files = [d \in {} |-> NoMessage] /\ faults = 0 /\ opened = <<>> /\ missed = 0

Tick == /\ now < 2 * LastDay + 1
        /\ now' = now + 1
        /\ UNCHANGED <<rotation, alive, rotation_tp_, file, isOpen, filenames_q_, files, faults,
                       opened, missed>>

\* MUTANT of next_rotation_tp_: the day's rotation time, even if it has passed.
next_rotation_today(t) == 2 * DayOf(t) + rotation

\* As it is when the clock says t.
next_rotation_tp_(t) ==
    LET today == 2 * DayOf(t) + rotation IN IF today > t THEN today ELSE today + 2

\* file_helper::open, when it succeeds.
Opened(day) == [d \in DOMAIN files \cup {day} |->
                  IF d \in DOMAIN files /\ ~(d = day /\ Truncate) THEN files[d] ELSE NoMessage]

\* init_filenames_q_ at time t: from this day back to the first that has no file.
Found(fs, t) ==
    LET today == DayOf(t)
    IN {d \in DOMAIN fs : d > today - MaxFiles /\ \A e \in d..today : e \in DOMAIN fs}

\* The names it pushes, those of the earlier days first.
Pushed(q, days) ==
    LET push[d \in -1..LastDay] ==
          IF d = -1 THEN q
          ELSE IF d \in days THEN PushBack(push[d - 1], d) ELSE push[d - 1]
    IN push[LastDay]

\* The constructor looks at the clock three times: for the name of the file, for the
\* rotation time (t), and for the files that are there (u). It is midnight before,
\* between or after them.
Construct ==
    /\ ~alive
    /\ files' = Opened(DayOf(now))
    /\ alive' = TRUE /\ file' = DayOf(now) /\ isOpen' = TRUE
    /\ opened' = <<DayOf(now)>>
    /\ \E t \in now..(2 * LastDay + 1) : \E u \in t..(2 * LastDay + 1) :
         /\ rotation_tp_' = next_rotation_tp_(t)
         /\ filenames_q_' = Pushed(Create(MaxFiles), Found(files', u))
         /\ missed' = IF DayOf(u) = DayOf(now) THEN 0 ELSE 1
         /\ now' = u
    /\ UNCHANGED <<rotation, faults>>

\* Of the object nothing is left; the files stay.
Destruct == /\ alive
            /\ alive' = FALSE /\ rotation_tp_' = 0 /\ file' = NoDay /\ isOpen' = FALSE
            /\ filenames_q_' = Disabled /\ opened' = <<>> /\ missed' = 0
            /\ UNCHANGED <<clock, files, faults>>

WriteTo(fs, day, t) == [fs EXCEPT ![day] = t]

Without(fs, day) == [d \in DOMAIN fs \ {day} |-> fs[d]]

\* sink_it_ before the rotation time. In a file that could not be opened, or that
\* has been removed, nothing appears.
Log(t) == /\ alive /\ isOpen /\ t < rotation_tp_
          /\ files' = IF file \in DOMAIN files THEN WriteTo(files, file, t) ELSE files
          /\ UNCHANGED <<clock, alive, rotation_tp_, file, isOpen, filenames_q_, faults, opened, missed>>

\* The outcomes of delete_old_. remove() may fail, if there is the file.
Clean(fs, day) ==
    IF Full(filenames_q_)
    THEN LET old == FrontItem(filenames_q_)
             q == PushBack(PopFront(filenames_q_), day)
         IN {[files |-> Without(fs, old), q |-> q, ok |-> TRUE]} \cup
            (IF old \in DOMAIN fs /\ faults < MaxFaults THEN {[files |-> fs, q |-> q, ok |-> FALSE]} ELSE {})
    ELSE {[files |-> fs, q |-> PushBack(filenames_q_, day), ok |-> TRUE]}

\* sink_it_ with a rotation: the file is named by the message's day, and the next
\* rotation comes after the present.
LogRotating(t) ==
    /\ alive /\ t >= rotation_tp_
    /\ LET day == DayOf(t) IN
         /\ file' = day /\ isOpen' = TRUE
         /\ rotation_tp_' = next_rotation_tp_(now)
         /\ opened' = Append(opened, day)
         /\ \E c \in Clean(WriteTo(Opened(day), day, t), day) :
              /\ files' = c.files /\ filenames_q_' = c.q
              /\ faults' = IF c.ok THEN faults ELSE faults + 1
    /\ UNCHANGED <<clock, alive, missed>>

\* The new file cannot be opened: its name is kept, the old one is closed, and the
\* next message tries again.
LogOpenFails(t) ==
    /\ alive /\ t >= rotation_tp_ /\ faults < MaxFaults
    /\ faults' = faults + 1
    /\ file' = DayOf(t) /\ isOpen' = FALSE
    /\ UNCHANGED <<clock, alive, rotation_tp_, filenames_q_, files, opened, missed>>

Next == \/ Tick \/ Construct \/ Destruct
        \/ \E t \in {n \in 0..now : n >= now - Delay} : Log(t) \/ LogRotating(t) \/ LogOpenFails(t)

Spec == Init /\ [][Next]_vars
------------------------------------------------------------------------------
TypeOK == /\ now \in 0..(2 * LastDay + 1) /\ DOMAIN files \subseteq Days
          /\ file \in Days \cup {NoDay} /\ alive \in BOOLEAN /\ isOpen \in BOOLEAN
          /\ Ring(filenames_q_, Days) /\ (alive => filenames_q_.max = MaxFiles + 1)
          /\ faults \in 0..MaxFaults /\ missed \in {0, 1}

Latest(n) == {opened[i] : i \in {j \in DOMAIN opened : j > Len(opened) - n}}

\* The last files the sink has opened are there, the one it writes to among them, and
\* of the others of this sink only those whose removal failed or whose name is missed.
Retained == alive => /\ Latest(MaxFiles) \subseteq DOMAIN files
                     /\ Cardinality({opened[i] : i \in DOMAIN opened} \cap DOMAIN files)
                          <= MaxFiles + faults + missed

(***************************************************************************)
(* "If max_files > 0, retain only the last max_files and delete previous"  *)
(* (daily_file_sink.h:42), when the rotation is at midnight: files found   *)
(* at the start, failures to remove or open one, and messages that come    *)
(* late included. One file more may stay: when midnight comes in the       *)
(* constructor, after the name of the file is made (line 62) and before    *)
(* the files are looked for (line 113).  (At another rotation time the     *)
(* first rotation may open the file of the same day again: its name is     *)
(* then twice in the queue, and a file in use is deleted.)                 *)
(***************************************************************************)
DailyRetains == rotation = 0 => Retained

(***************************************************************************)
(* The comment at daily_file_sink.h:42 to the letter, where nothing fails. *)
(* A midnight in the constructor refutes it.                               *)
(***************************************************************************)
OnlyTheLastRemain ==
    rotation = 0 /\ alive /\ faults = 0 =>
        Cardinality({opened[i] : i \in DOMAIN opened} \cap DOMAIN files) <= MaxFiles
==============================================================================
