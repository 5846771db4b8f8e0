----------------------------- MODULE FileLogger -----------------------------
(***************************************************************************)
(* infrastructure.FileLogger: lines are appended to the file of the day, and*)
(* the first Write of another day closes that file, compresses it and       *)
(* removes the original.  The mutex makes calls exclude each other, but time*)
(* goes on between two looks at the clock, the process may die between two  *)
(* file system calls and be started again, and these calls may fail.  The   *)
(* lines of a file are a set.                                               *)
(***************************************************************************)
EXTENDS Integers

CONSTANTS Lines,     \* what is logged, each line once
          LastDay,   \* bound on the days that pass
          NoFile     \* f.file is nil, or there is no such file

ASSUME FileLoggerAssumption == /\ LastDay \in Nat /\ NoFile \notin 0..LastDay
                               /\ \A f \in SUBSET Lines : f # NoFile

VARIABLES day,         \* what time.Now formats to
          compress,    \* cfg.Log.Compress
          logger,      \* where the goroutine that holds f.mu is; down: no process
          currentDate,
          file,        \* the day of the file f.file is open on
          shut,        \* Close has closed it
          writing,     \* the line of the Write under way
          plain, gz,   \* the files on disk
          accepted,    \* lines whose Write has returned without error
          spoilt       \* lines of a file whose compression failed

diskVars == <<plain, gz>>
loggerVars == <<day, compress, logger, currentDate, file, shut, writing, diskVars,
                accepted, spoilt>>

Days == 0..LastDay

FileLoggerTypeOK ==
    /\ day \in Days /\ currentDate \in Days /\ compress \in BOOLEAN
    /\ logger \in {"down", "init", "idle", "rotate", "copy", "remove", "reopen", "append"}
    /\ file \in Days \cup {NoFile} /\ shut \in BOOLEAN
    /\ writing \subseteq Lines
    /\ plain \in [Days -> {NoFile} \cup SUBSET Lines]
    /\ gz \in [Days -> {NoFile} \cup SUBSET Lines]
    /\ accepted \subseteq Lines /\ spoilt \subseteq Lines

FileLoggerInit ==
    /\ day = 0 /\ currentDate = 0 /\ compress \in BOOLEAN
    /\ logger = "down" /\ file = NoFile /\ shut = FALSE /\ writing = {}
    /\ plain = [d \in Days |-> NoFile] /\ gz = [d \in Days |-> NoFile]
    /\ accepted = {} /\ spoilt = {}
-----------------------------------------------------------------------------
LoggerGoes(from, to) == logger = from /\ logger' = to

\* Bug: the file is opened without O_APPEND, and truncated.
OpenTruncates(d) ==
    /\ file' = d /\ shut' = FALSE
    /\ plain' = [plain EXCEPT ![d] = {}]

\* What O_CREATE and O_APPEND make of the file of day d.
OpenAppends(d) ==
    /\ file' = d /\ shut' = FALSE
    /\ plain' = [plain EXCEPT ![d] = IF @ = NoFile THEN {} ELSE @]

\* A file that cannot be opened is nil.
OpenCurrentFile == \/ OpenAppends(day)
                   \/ file' = NoFile /\ shut' = FALSE /\ UNCHANGED plain

\* The factory reads the date ...
StartLogger ==
    /\ LoggerGoes("down", "init")
    /\ currentDate' = day
    /\ UNCHANGED <<day, compress, file, shut, writing, diskVars, accepted, spoilt>>

\* ... and once more to open the file.
StartedLogger ==
    /\ LoggerGoes("init", "idle")
    /\ OpenCurrentFile
    /\ UNCHANGED <<day, compress, currentDate, writing, gz, accepted, spoilt>>

NeedsRotation == day # currentDate

\* Write takes the mutex; rotate starts with the end of the open file.
WriteLine(l) ==
    /\ l \notin accepted
    /\ writing' = {l}
    /\ IF NeedsRotation
       THEN /\ LoggerGoes("idle", "rotate")
            /\ file' = NoFile /\ shut' = FALSE
       ELSE /\ LoggerGoes("idle", "append") /\ UNCHANGED <<file, shut>>
    /\ UNCHANGED <<day, compress, currentDate, diskVars, accepted, spoilt>>

\* The loop over maxFiles: the numbered files it looks for never come to be,
\* since only a numbered file is renamed to one, so nothing happens unless it
\* compresses and the file of the old date exists. os.Create truncates.
Rotate ==
    /\ logger = "rotate"
    /\ IF compress /\ plain[currentDate] # NoFile
       THEN /\ logger' = "copy"
            /\ gz' = [gz EXCEPT ![currentDate] = {}]
       ELSE /\ logger' = "reopen" /\ UNCHANGED gz
    /\ UNCHANGED <<day, compress, currentDate, file, shut, writing, plain, accepted, spoilt>>

\* compressFile returns nothing: whether it failed is not known.
CompressFile ==
    /\ LoggerGoes("copy", "remove")
    /\ \/ gz' = [gz EXCEPT ![currentDate] = plain[currentDate]] /\ UNCHANGED spoilt
       \/ spoilt' = spoilt \cup plain[currentDate] /\ UNCHANGED gz
    /\ UNCHANGED <<day, compress, currentDate, file, shut, writing, plain, accepted>>

RemoveOld ==
    /\ LoggerGoes("remove", "reopen")
    /\ \/ plain' = [plain EXCEPT ![currentDate] = NoFile]
       \/ UNCHANGED plain
    /\ UNCHANGED <<day, compress, currentDate, file, shut, writing, gz, accepted, spoilt>>

\* The new date, and a new look at the clock for the name of the file.
SetCurrentDate ==
    /\ LoggerGoes("reopen", "append")
    /\ currentDate' = day
    /\ UNCHANGED <<day, compress, file, shut, writing, diskVars, accepted, spoilt>>

\* The end of rotate, or Write itself when no file is open.
Reopen ==
    /\ logger = "append" /\ file = NoFile
    /\ OpenCurrentFile
    /\ IF file' = NoFile THEN logger' = "idle" /\ writing' = {}
                         ELSE UNCHANGED <<logger, writing>>
    /\ UNCHANGED <<day, compress, currentDate, gz, accepted, spoilt>>

\* A closed file refuses the line; the disk may, too.
AppendLine ==
    /\ LoggerGoes("append", "idle") /\ file # NoFile
    /\ writing' = {}
    /\ \/ /\ ~ shut
          /\ plain' = [plain EXCEPT ![file] = @ \cup writing]
          /\ accepted' = accepted \cup writing
       \/ UNCHANGED <<plain, accepted>>
    /\ UNCHANGED <<day, compress, currentDate, file, shut, gz, spoilt>>

\* Close leaves f.file, so the next rotation opens a file again.
CloseLogger ==
    /\ logger = "idle" /\ file # NoFile
    /\ shut' = TRUE
    /\ UNCHANGED <<day, compress, logger, currentDate, file, writing, diskVars,
                   accepted, spoilt>>

\* The process ends, between any two calls of the file system.
Crash ==
    /\ logger # "down" /\ logger' = "down"
    /\ file' = NoFile /\ shut' = FALSE /\ writing' = {} /\ currentDate' = 0
    /\ UNCHANGED <<day, compress, diskVars, accepted, spoilt>>

Midnight ==
    /\ day < LastDay /\ day' = day + 1
    /\ UNCHANGED <<compress, logger, currentDate, file, shut, writing, diskVars,
                   accepted, spoilt>>

FileLoggerNext ==
    \/ StartLogger \/ StartedLogger
    \/ \E l \in Lines : WriteLine(l)
    \/ Rotate \/ CompressFile \/ RemoveOld \/ SetCurrentDate \/ Reopen \/ AppendLine
    \/ CloseLogger \/ Crash \/ Midnight

FileLoggerSpec == FileLoggerInit /\ [][FileLoggerNext]_loggerVars
-----------------------------------------------------------------------------
Kept(f) == IF f = NoFile THEN {} ELSE f

(* A line whose Write returned without error stays in a file, plain or      *)
(* compressed, through rotations, midnights between two looks at the clock, *)
(* crashes and restarts; only a file whose compression failed is lost, since*)
(* rotate removes it all the same (logfile.go:146).                         *)
NoLineLost ==
    accepted \subseteq spoilt \cup UNION {Kept(plain[d]) \cup Kept(gz[d]) : d \in Days}
=============================================================================
