------------------------------- MODULE CommandLine -------------------------------
(****************************************************************************)
(* CommandProcessor, CommandLine and NetPacketCommandLine: start() reads    *)
(* its arguments token by token, sets options as it goes, and keeps them    *)
(* when it throws; the options of an earlier start or setOpt stay.          *)
(*                                                                          *)
(* A token is what ProcessToken makes of it: a name (-x), a value with or   *)
(* without quotes, a token it refuses ("", "-", "--x"), or a lone quote.    *)
(* VALIDATORS is empty (its entries are commented out), so no option is     *)
(* validated.  The parser never looks ahead, so an argument is chosen when  *)
(* it is read.                                                              *)
(****************************************************************************)
EXTENDS Integers, Sequences, SequencesExt, FiniteSetsExt

CONSTANTS VALUED_OPTS, FLAG_OPTS,  \* the options there are
          Unknown,                 \* names that are none
          Values,
          MaxArgs                  \* bound: how many arguments start() is given

\* The constructor refuses an option that is both; "mode" is not an option, nor is "",
\* which setOpt is given before there is a last one.
ASSUME OptionsAssumption == /\ VALUED_OPTS \intersect FLAG_OPTS = {}
                            /\ Unknown \intersect (VALUED_OPTS \union FLAG_OPTS) = {}
                            /\ {"", "h", "mode"} \intersect (VALUED_OPTS \union FLAG_OPTS) = {}

Token == [type : {"OPTION_NAME"}, text : VALUED_OPTS \union FLAG_OPTS \union Unknown]
   \union [type : {"OPTION_VALUE"}, text : Values]
   \union [type : {"refused", "lone quote"}, text : {""}]

VARIABLES args,             \* the arguments the last start() has read
          expect,           \* expected_types, expect_any and expect_next
          last_option,
          current_options_,
          before,           \* current_options_ when it began
          outcome           \* of it, or "parsing"

command_vars == <<args, expect, last_option, current_options_, before, outcome>>

NoOption == ""

CommandInit == /\ args = << >>
               /\ expect = "name"
               /\ last_option = NoOption
               /\ current_options_ = << >>
               /\ before = << >>
               /\ outcome = "none"

--------------------------------------------------------------------------------

PutOption(name, value) == current_options_' = [o \in DOMAIN current_options_ \union {name} |->
                                                 IF o = name THEN value ELSE current_options_[o]]

\* Mutant: any option may be set.
SetUnchecked(options, name, value, next) == PutOption(name, value) /\ outcome' = next

\* setOpt, of a flag or of a valued option: throws if there is no such option.
Set(options, name, value, next) ==
    IF name \in options THEN PutOption(name, value) /\ outcome' = next
                        ELSE outcome' = "threw" /\ UNCHANGED current_options_

\* The public setOpt, between two starts.
setOpt(name) ==
    /\ outcome # "parsing"
    /\ \/ Set(FLAG_OPTS, name, "", "none")
       \/ \E v \in Values : Set(VALUED_OPTS, name, v, "none")
    /\ args' = << >>
    /\ UNCHANGED <<expect, last_option, before>>

\* printHelp_: there are no arguments, or one of them asks for help.
Help ==
    /\ outcome # "parsing"
    /\ args' = << >>
    /\ outcome' = "help"
    /\ UNCHANGED <<expect, last_option, current_options_, before>>

start ==
    /\ outcome # "parsing"
    /\ args' = << >>
    /\ expect' = "name"
    /\ last_option' = NoOption
    /\ before' = current_options_
    /\ outcome' = "parsing"
    /\ UNCHANGED current_options_

Read(t) == /\ outcome = "parsing"
           /\ Len(args) < MaxArgs
           /\ args' = Append(args, t)
           /\ UNCHANGED before

Reject(how) == outcome' = how /\ UNCHANGED <<expect, last_option, current_options_>>

\* ProcessToken throws: too few or too many dashes, or the reversed range a lone quote
\* leaves, which std::string refuses.
BadToken(t) ==
    /\ Read(t)
    /\ \/ t.type = "refused" /\ Reject("threw")
       \/ t.type = "lone quote" /\ Reject("length_error")

Expected(type) == expect = "any" \/ expect = type

UnexpectedToken(t) ==
    /\ Read(t)
    /\ \/ t.type = "OPTION_NAME" /\ ~Expected("name")
       \/ t.type = "OPTION_VALUE" /\ ~Expected("value")
    /\ Reject("threw")

UnknownOption(t) ==
    /\ Read(t)
    /\ t.type = "OPTION_NAME" /\ Expected("name")
    /\ t.text \notin FLAG_OPTS \union VALUED_OPTS
    /\ Reject("threw")

\* Mutant: a flag changes nothing of what is expected.
AsBefore == expect

AfterFlag == "any"

Flag(t) ==
    /\ Read(t)
    /\ t.type = "OPTION_NAME" /\ Expected("name")
    /\ t.text \in FLAG_OPTS
    /\ Set(FLAG_OPTS, t.text, "", "parsing")
    /\ expect' = AfterFlag
    /\ UNCHANGED last_option

ValuedName(t) ==
    /\ Read(t)
    /\ t.type = "OPTION_NAME" /\ Expected("name")
    /\ t.text \in VALUED_OPTS
    /\ expect' = "value"
    /\ last_option' = t.text
    /\ UNCHANGED <<current_options_, outcome>>

\* The value goes to the last valued name, wherever that was; setOpt("") throws.
Value(t) ==
    /\ Read(t)
    /\ t.type = "OPTION_VALUE" /\ Expected("value")
    /\ Set(VALUED_OPTS, last_option, t.text, "parsing")
    /\ expect' = "name"
    /\ UNCHANGED last_option

\* The arguments are over: setMode_ asks for the option "mode", which is none.
Finish ==
    /\ outcome = "parsing"
    /\ args # << >>
    /\ Reject(IF expect = "value" THEN "threw" ELSE "no mode")
    /\ UNCHANGED <<args, before>>

CommandNext == \/ \E name \in VALUED_OPTS \union FLAG_OPTS \union Unknown : setOpt(name)
               \/ Help
               \/ start
               \/ \E t \in Token : \/ BadToken(t)
                                   \/ UnexpectedToken(t)
                                   \/ UnknownOption(t)
                                   \/ Flag(t)
                                   \/ ValuedName(t)
                                   \/ Value(t)
               \/ Finish

CommandSpec == CommandInit /\ [][CommandNext]_command_vars

--------------------------------------------------------------------------------

IsName(k)   == args[k].type = "OPTION_NAME"
IsValue(k)  == args[k].type = "OPTION_VALUE"
IsValued(k) == IsName(k) /\ args[k].text \in VALUED_OPTS

CommandTypeOK ==
    /\ args \in Seq(Token)
    /\ expect \in {"name", "value", "any"}
    /\ last_option \in VALUED_OPTS \union {NoOption}
    /\ DOMAIN before \subseteq DOMAIN current_options_
    /\ \A o \in DOMAIN current_options_ :
          \/ o \in FLAG_OPTS /\ current_options_[o] = ""
          \/ o \in VALUED_OPTS /\ current_options_[o] \in Values
    /\ outcome \in {"none", "parsing", "help", "threw", "length_error", "no mode"}

\* The grammar of the arguments: names are known, a valued name has its value next, and
\* a value comes after a name, with a valued name somewhere before it.
Grammatical ==
    \A k \in DOMAIN args :
        /\ IsName(k) \/ IsValue(k)
        /\ IsName(k) => args[k].text \in VALUED_OPTS \union FLAG_OPTS
        /\ IsValued(k) => k < Len(args) /\ IsValue(k + 1)
        /\ IsValue(k) => k > 1 /\ IsName(k - 1) /\ \E j \in 1 .. k - 1 : IsValued(j)

Owner(k) == args[Max({j \in 1 .. k - 1 : IsValued(j)})].text

Given(o) == IF o \in FLAG_OPTS THEN ""
            ELSE args[Max({k \in DOMAIN args : IsValue(k) /\ Owner(k) = o})].text

Named == {args[k].text : k \in {n \in DOMAIN args : IsName(n)}}

\* The token-by-token parser takes exactly the grammatical arguments, and then the
\* options are those named, with the last value each was given, over what earlier calls
\* left, whether those calls succeeded or threw half-way (cmd.h:179-218, cmd.cc:19-81).
ParserFollowsGrammar ==
    /\ outcome = "no mode" =>
          /\ Grammatical
          /\ current_options_ = [o \in DOMAIN before \union Named |->
                                   IF o \in Named THEN Given(o) ELSE before[o]]
    /\ outcome \in {"threw", "length_error"} /\ args # << >> => ~Grammatical

================================================================================
