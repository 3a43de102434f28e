----------------------------- MODULE RotatingFiles -----------------------------
(***************************************************************************)
(* rotating_file_sink (sinks/rotating_file_sink-inl.h) over file_helper    *)
(* (details/file_helper-inl.h): log.txt, log.1.txt, ... are the files      *)
(* 0..max_files, of each of which the model knows the messages in it. A    *)
(* rename may fail twice, and an fopen as often as open() tries it: then   *)
(* the sink throws, which its logger reports, and is used again. A new     *)
(* program may find the files that an earlier one has left. The fwrite of  *)
(* a message writes all of it, and a remove does not fail.                 *)
(***************************************************************************)
EXTENDS Integers, Sequences

CONSTANTS MaxFiles, MaxSize,   \* max_files_, max_size_
          Sizes,               \* the lengths of a formatted message
          MaxMessages, MaxFaults, MaxOpens   \* bounds

VARIABLES files,         \* of each index the messages of the file, or Missing
          isOpen,        \* fd_ # nullptr
          current_size_,
          alive,         \* whether there is a sink
          sent,          \* the number of messages logged
          sizes,         \* of each message its length
          faults, opens,
          wrote          \* whether a write went to a null FILE

vars == <<files, isOpen, current_size_, alive, sent, sizes, faults, opens, wrote>>

Missing == <<0>>      \* no messages are numbered 0
Exists(fs, i) == fs[i] # Missing

\* The length of a file with these messages, if a message has its length in `lengths`.
Total(messages, lengths) ==
    LET upTo[n \in 0..Len(messages)] ==
          IF n = 0 THEN 0 ELSE upTo[n - 1] + lengths[messages[n]]
    IN upTo[Len(messages)]

Length(messages) == Total(messages, sizes)

Init == /\ files = [i \in 0..MaxFiles |-> Missing]
        /\ isOpen = FALSE /\ current_size_ = 0 /\ alive = FALSE
        /\ sent = 0 /\ sizes = <<>> /\ faults = 0 /\ opens = 0 /\ wrote = FALSE

\* file_helper::open of log.txt, when it succeeds.
Opened(fs, truncate) ==
    IF truncate \/ ~Exists(fs, 0) THEN [fs EXCEPT ![0] = <<>>] ELSE fs

\* rename_file_: the target is removed first, and stays so if the rename fails.
Renamed(fs, i) == [fs EXCEPT ![i] = fs[i - 1], ![i - 1] = Missing]
RenameFailed(fs, i) == [fs EXCEPT ![i] = Missing]

\* MUTANT of RenamedDownTo: the files are moved in ascending order.
RenamedAscending(fs, n) ==
    LET step[i \in 0..MaxFiles] ==
          IF i = 0 THEN fs
          ELSE IF i > n /\ Exists(step[i - 1], i - 1) THEN Renamed(step[i - 1], i)
          ELSE step[i - 1]
    IN step[MaxFiles]

\* The loop of rotate_(), for the indices MaxFiles down to n + 1.
RenamedDownTo(fs, n) ==
    LET step[i \in n..MaxFiles] ==      \* the files after the indices above i
          IF i = MaxFiles THEN fs
          ELSE IF Exists(step[i + 1], i) THEN Renamed(step[i + 1], i + 1) ELSE step[i + 1]
    IN step[n]

\* The outcomes of rotate_(): the files, whether log.txt is open after it, and whether
\* it has thrown; a rename that fails twice has reset current_size_ unless the reopen
\* throws first.
Rotations ==
    {[files |-> Opened(RenamedDownTo(files, 0), TRUE), open |-> TRUE, ok |-> TRUE, reset |-> FALSE]}
    \cup
    (IF faults = MaxFaults THEN {}
     ELSE {[files |-> RenamedDownTo(files, 0), open |-> FALSE, ok |-> FALSE, reset |-> FALSE]}
          \cup
          UNION {{[files |-> Opened(RenameFailed(RenamedDownTo(files, i), i), TRUE),
                   open |-> TRUE, ok |-> FALSE, reset |-> TRUE],
                  [files |-> RenameFailed(RenamedDownTo(files, i), i),
                   open |-> FALSE, ok |-> FALSE, reset |-> FALSE]} :
                 i \in {j \in 1..MaxFiles : Exists(RenamedDownTo(files, j), j - 1)}})

Fault(happened) == faults' = IF happened THEN faults + 1 ELSE faults

\* The constructor, without rotate_on_open or with nothing to rotate. When the file
\* cannot be opened there is no sink.
Construct ==
    /\ ~alive /\ opens < MaxOpens /\ opens' = opens + 1
    /\ files' = Opened(files, FALSE)
    /\ isOpen' = TRUE /\ alive' = TRUE
    /\ current_size_' = Length(files'[0])
    /\ UNCHANGED <<sent, sizes, faults, wrote>>

\* rotate_on_open: current_size_ remains that of the file that was moved away.
ConstructRotating ==
    /\ ~alive /\ opens < MaxOpens /\ opens' = opens + 1
    /\ Exists(files, 0) /\ files[0] # <<>>
    /\ \E r \in Rotations :
         /\ files' = r.files
         /\ isOpen' = r.ok /\ alive' = r.ok
         /\ current_size_' = Length(files[0])
         /\ Fault(~r.ok)
    /\ UNCHANGED <<sent, sizes, wrote>>

\* The destructor, or the end of the program.
Destruct == /\ alive
            /\ alive' = FALSE /\ isOpen' = FALSE
            /\ UNCHANGED <<files, current_size_, sent, sizes, faults, opens, wrote>>

\* file_helper::write.
Written(fs, message) == [fs EXCEPT ![0] = Append(@, message)]

\* sink_it_ when the message still fits.
LogHere(size) ==
    /\ alive /\ sent < MaxMessages
    /\ current_size_ + size <= MaxSize
    /\ sent' = sent + 1 /\ sizes' = Append(sizes, size)
    /\ current_size_' = current_size_ + size
    /\ files' = IF isOpen THEN Written(files, sent + 1) ELSE files
    /\ wrote' = (wrote \/ ~isOpen)
    /\ UNCHANGED <<isOpen, alive, faults, opens>>

\* sink_it_ when it does not. The message is gone if rotate_() throws.
LogRotating(size) ==
    /\ alive /\ sent < MaxMessages
    /\ current_size_ + size > MaxSize
    /\ sent' = sent + 1 /\ sizes' = Append(sizes, size)
    /\ \E r \in Rotations :
         /\ files' = IF r.ok THEN Written(r.files, sent + 1) ELSE r.files
         /\ isOpen' = r.open
         /\ current_size_' = IF r.ok THEN size ELSE IF r.reset THEN 0 ELSE current_size_ + size
         /\ Fault(~r.ok)
    /\ UNCHANGED <<alive, opens, wrote>>

Next == \/ \E size \in Sizes : LogHere(size) \/ LogRotating(size)
        \/ Construct \/ ConstructRotating \/ Destruct

Spec == Init /\ [][Next]_vars
------------------------------------------------------------------------------
TypeOK == /\ \A i \in 0..MaxFiles : Exists(files, i) => files[i] \in Seq(1..sent)
          /\ isOpen \in BOOLEAN /\ alive \in BOOLEAN /\ (isOpen => alive /\ Exists(files, 0))
          /\ current_size_ \in Nat /\ sent \in 0..MaxMessages /\ sizes \in [1..sent -> Sizes]
          /\ faults \in 0..MaxFaults /\ opens \in 0..MaxOpens

\* The messages in a file, and in all of them.
MessagesOf(i) == IF Exists(files, i) THEN {files[i][k] : k \in DOMAIN files[i]} ELSE {}

OnDisk == UNION {MessagesOf(i) : i \in 0..MaxFiles}

(***************************************************************************)
(* The files, read from the oldest, hold the messages in the order in      *)
(* which they were logged, through rotations, failed ones included, and    *)
(* restarts; and without a failure they hold the latest ones, all of them  *)
(* unless each of the max_files is there. log.txt is never longer than     *)
(* max_size unless one message is, and sink_it_ knows at least its length. *)
(***************************************************************************)
RotatingKeepsLatest ==
    /\ \A i \in 0..MaxFiles :
          /\ Exists(files, i) => \A k, l \in DOMAIN files[i] : k < l => files[i][k] < files[i][l]
          /\ \A j \in 0..(i - 1) : \A m \in MessagesOf(i), n \in MessagesOf(j) : m < n
    /\ faults = 0 => /\ \A m \in OnDisk : m..sent \subseteq OnDisk
                     /\ OnDisk = 1..sent \/ \A i \in 0..MaxFiles : Exists(files, i)
    /\ Exists(files, 0) => Len(files[0]) <= 1 \/ Length(files[0]) <= MaxSize
    /\ isOpen => Length(files[0]) <= current_size_

(***************************************************************************)
(* No message is written to a file that could not be opened again: fwrite  *)
(* on a null pointer. After a rotation that threw, current_size_ is still  *)
(* beyond the limit, and so the next message tries to rotate first.        *)
(***************************************************************************)
NeverWritesClosed == ~wrote
==============================================================================
