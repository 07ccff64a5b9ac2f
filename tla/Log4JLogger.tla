------------------------------ MODULE Log4JLogger -------------------------------
(****************************************************************************)
(* Log4JLogger over log4cpp: a logger keeps a level and an appender, and so *)
(* does the log4cpp category behind it, which filters and writes; the       *)
(* category may own appenders that the logger holds too, and all of them    *)
(* are released in three steps when the process exits.                      *)
(*                                                                          *)
(* Categories are the root and its children: the program makes no others.   *)
(* An appender is written to or freed; what it writes is left out.          *)
(****************************************************************************)
EXTENDS Integers, FiniteSets, FiniteSetsExt

CONSTANTS Names,       \* of the categories under the root
          Appenders,   \* that a properties file may define
          Files,       \* the properties files the program may be given
          Loggers      \* the Log4JLogger objects made by name

Root       == "root"
Console    == "console"   \* the default appender
Categories == Names \union {Root}
AllAppenders == Appenders \union {Console}

\* The priorities of log4cpp, in hundreds: the smaller, the more urgent.
EMERG  == 0
ALERT  == 1
ERROR  == 3
WARN   == 4
NOTICE == 5
INFO   == 6
DEBUG  == 7
NOTSET == 8

LogLevels == {"LL_ERROR", "LL_WARNING", "LL_INFO", "LL_DEBUG"}

fromLogLevel == [LL_ERROR |-> ERROR, LL_WARNING |-> WARN, LL_INFO |-> INFO, LL_DEBUG |-> DEBUG]

fromPriorityLevel(p) == CASE p <= ERROR          -> "LL_ERROR"
                          [] p \in {WARN, NOTICE} -> "LL_WARNING"
                          [] p = INFO             -> "LL_INFO"
                          [] p \in {DEBUG, NOTSET} -> "LL_DEBUG"

ASSUME NamesAssumption == /\ {Root} \intersect (Names \union Loggers) = {}
                          /\ Console \notin Appenders

\* A file gives some categories a priority and finitely many appenders it defines.
ASSUME FilesAssumption ==
    \A f \in Files : /\ DOMAIN f \subseteq Categories
                     /\ \A c \in DOMAIN f : /\ f[c].priority \in EMERG .. NOTSET
                                            /\ f[c].appenders \subseteq Appenders
                                            /\ IsFiniteSet(f[c].appenders)

VARIABLES state,       \* of the process
          priority,    \* of each category
          attached,    \* the appenders each category writes to
          owned,       \* those of them it is to delete
          created,     \* the appenders made so far
          freed,       \* how often each has been deleted
          loggers,     \* for each logger made: its category and log_level_
          line         \* the last message logged, and what became of it

logger_vars == <<state, priority, attached, owned, created, freed, loggers, line>>

NoLine == [logger |-> Root, level |-> "LL_ERROR", limit |-> "LL_ERROR", copies |-> -1]

LoggerInit == /\ state = "starting"
              /\ priority = [c \in Categories |-> IF c = Root THEN INFO ELSE NOTSET]
              /\ attached = [c \in Categories |-> {}]
              /\ owned = [c \in Categories |-> {}]
              /\ created = {}
              /\ freed = [a \in AllAppenders |-> 0]
              /\ loggers = << >>
              /\ line = NoLine

--------------------------------------------------------------------------------
(* The start of the process: log4cpp is configured from a file, or is not.      *)

\* Mutant: appenders are added by pointer, so that each category owns its own.
ConfiguredOwning(f) == [c \in Categories |-> IF c \in DOMAIN f THEN f[c].appenders ELSE {}]

\* Appenders are added by reference: the categories do not own them.
ConfiguredOwned(f) == [c \in Categories |-> IF c \in DOMAIN f THEN {} ELSE owned[c]]

\* Mutant: any priority is set on any category.
RefusesNothing(f) == FALSE

\* setPriority(NOTSET) throws for the root.
Refuses(f) == Root \in DOMAIN f /\ f[Root].priority = NOTSET

configureFromFile(f) ==
    /\ state = "starting"
    /\ IF Refuses(f)
       THEN /\ state' = "terminated"   \* ConfigureFailure, which main does not catch
            /\ UNCHANGED <<priority, attached, owned>>
       ELSE /\ state' = "running"
            /\ priority' = [c \in Categories |-> IF c \in DOMAIN f THEN f[c].priority ELSE priority[c]]
            /\ attached' = [c \in Categories |-> IF c \in DOMAIN f THEN f[c].appenders ELSE attached[c]]
            /\ owned' = ConfiguredOwned(f)
    /\ created' = UNION {f[c].appenders : c \in DOMAIN f}
    /\ UNCHANGED <<freed, loggers, line>>

Unconfigured ==
    /\ state = "starting"
    /\ state' = "running"
    /\ UNCHANGED <<priority, attached, owned, created, freed, loggers, line>>

--------------------------------------------------------------------------------

PutLogger(l, c, level) == loggers' = [x \in DOMAIN loggers \union {l} |->
                                        IF x = l THEN [category |-> c, level |-> level] ELSE loggers[x]]

\* Mutant: only the logger's own level is set.
SetLevelOnly(l, c, level) == PutLogger(l, c, level) /\ UNCHANGED priority

\* setLevel of logger l of category c, which the constructor calls too.
SetLevel(l, c, level) == /\ PutLogger(l, c, level)
                         /\ priority' = [priority EXCEPT ![c] = fromLogLevel[level]]

\* GetRoot(): the logger of the root category, made at the first call.
GetRoot ==
    /\ state = "running"
    /\ Root \notin DOMAIN loggers
    /\ PutLogger(Root, Root, fromPriorityLevel(priority[Root]))
    /\ UNCHANGED <<state, priority, attached, owned, created, freed, line>>

GetRootAt(level) ==
    /\ state = "running"
    /\ SetLevel(Root, Root, level)
    /\ UNCHANGED <<state, attached, owned, created, freed, line>>

\* addAppender(Appender*) passes the ownership of an appender the category has not got.
AddAppender(c, a) == IF a \in attached[c] THEN UNCHANGED <<attached, owned>>
                     ELSE /\ attached' = [attached EXCEPT ![c] = @ \union {a}]
                          /\ owned' = [owned EXCEPT ![c] = @ \union {a}]

\* Log4JLogger(name, level, true): the appender is one the category has, and there must
\* be one: addAppender(NULL) throws what main does not catch.
NewConfigured(l, c, level) ==
    /\ SetLevel(l, c, level)
    /\ IF attached[c] = {} THEN state' = "terminated" ELSE UNCHANGED state
    /\ UNCHANGED <<attached, owned, created>>

\* Log4JLogger(name, level): the appender is the default one, made at first use.
NewUnconfigured(l, c, level) ==
    /\ SetLevel(l, c, level)
    /\ created' = created \union {Console}
    /\ AddAppender(c, Console)
    /\ UNCHANGED state

New(l, c, level, configured) ==
    /\ state = "running"
    /\ l \notin DOMAIN loggers
    /\ IF configured THEN NewConfigured(l, c, level) ELSE NewUnconfigured(l, c, level)
    /\ UNCHANGED <<freed, line>>

setLevel(l, level) ==
    /\ state = "running"
    /\ l \in DOMAIN loggers
    /\ SetLevel(l, loggers[l].category, level)
    /\ UNCHANGED <<state, attached, owned, created, freed, line>>

ChainedPriority(c) == IF priority[c] >= NOTSET THEN priority[Root] ELSE priority[c]

\* The category's own appenders, and the root's after them.
Copies(c) == Cardinality(attached[c]) + IF c = Root THEN 0 ELSE Cardinality(attached[Root])

log(l, level) ==
    /\ state = "running"
    /\ l \in DOMAIN loggers
    /\ LET c == loggers[l].category
       IN  line' = [logger |-> l, level |-> level, limit |-> loggers[l].level,
                    copies |-> IF ChainedPriority(c) >= fromLogLevel[level] THEN Copies(c) ELSE 0]
    /\ UNCHANGED <<state, priority, attached, owned, created, freed, loggers>>

--------------------------------------------------------------------------------
(* Exit, in the order of static destruction. *)

\* ~HierarchyMaintainer: every category deletes the appenders it owns.
Shutdown ==
    /\ state = "running"
    /\ state' = "categories gone"
    /\ freed' = [a \in AllAppenders |-> freed[a] + Cardinality({c \in Categories : a \in owned[c]})]
    /\ attached' = [c \in Categories |-> {}]
    /\ owned' = [c \in Categories |-> {}]
    /\ UNCHANGED <<priority, created, loggers, line>>

\* ~Log4JLogger of the loggers, and DefaultAppender_, share the default appender.
ReleaseDefault ==
    /\ state = "categories gone"
    /\ state' = "default gone"
    /\ freed' = [freed EXCEPT ![Console] = IF Console \in created THEN @ + 1 ELSE @]
    /\ UNCHANGED <<priority, attached, owned, created, loggers, line>>

\* ~AppenderMapStorage: the appenders that are left.
DeleteAllAppenders ==
    /\ state = "default gone"
    /\ state' = "exited"
    /\ freed' = [a \in AllAppenders |-> IF a \in created /\ freed[a] = 0 THEN 1 ELSE freed[a]]
    /\ UNCHANGED <<priority, attached, owned, created, loggers, line>>

LoggerNext == \/ \E f \in Files : configureFromFile(f)
              \/ Unconfigured
              \/ GetRoot
              \/ \E level \in LogLevels :
                    \/ GetRootAt(level)
                    \/ \E l \in Loggers, c \in Names, b \in BOOLEAN : New(l, c, level, b)
                    \/ \E l \in Loggers \union {Root} : setLevel(l, level) \/ log(l, level)
              \/ Shutdown
              \/ ReleaseDefault
              \/ DeleteAllAppenders

LoggerSpec == LoggerInit /\ [][LoggerNext]_logger_vars

--------------------------------------------------------------------------------

LoggerTypeOK ==
    /\ state \in {"starting", "running", "terminated", "categories gone", "default gone", "exited"}
    /\ priority \in [Categories -> EMERG .. NOTSET]
    /\ priority[Root] < NOTSET
    /\ attached \in [Categories -> SUBSET created]
    /\ \A c \in Categories : owned[c] \subseteq attached[c]
    /\ created \subseteq AllAppenders
    /\ freed \in [AllAppenders -> Nat]
    /\ DOMAIN loggers \subseteq Loggers \union {Root}
    /\ \A l \in DOMAIN loggers : loggers[l] \in [category : Categories, level : LogLevels]

\* However appenders are shared between categories, loggers and log4cpp's own register,
\* none that a file defined is deleted twice, and all are by the time the process has
\* exited.  The default appender, which a logger made without configuration gives to its
\* category and keeps, is deleted by both (Log4JLogger.cc:38-50, Category.hh:150, the
\* destructors of log4cpp).
FreedOnce ==
    \A a \in Appenders :
        /\ freed[a] <= 1
        /\ state = "exited" => freed[a] = IF a \in created THEN 1 ELSE 0

Within(level, limit) == fromLogLevel[level] <= fromLogLevel[limit]

\* No file puts the root above ERROR.  No log level stands for that: getLevel() would say
\* LL_ERROR of a logger that writes no errors, until its level is set, as main does.
HasLevels == \A f \in Files : Root \in DOMAIN f => f[Root].priority >= ERROR

Alone(l) == \A x \in DOMAIN loggers \ {l} : loggers[x].category # loggers[l].category

\* A message of a logger that shares its category with no other is written exactly when
\* it is within the logger's getLevel(), as long as the root has an appender: the level a
\* logger keeps and the priority of the category behind it, which the file, GetRoot and
\* setLevel set in their own units, never part (Log4JLogger.cc:52-75, 100-127).
LevelFilters ==
    HasLevels /\ line # NoLine /\ Alone(line.logger) /\ attached[Root] # {} =>
        (line.copies > 0) = Within(line.level, line.limit)

================================================================================
