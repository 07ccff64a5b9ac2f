------------------------------ MODULE MCLog4JLogger -----------------------------
(* Properties files: the root writes somewhere, at one of the priorities a log    *)
(* level stands for or just above one; a category may have the same appender, one  *)
(* of its own, both, or none.                                                     *)
EXTENDS Log4JLogger

Entry(ps, as) == [priority : ps, appenders : as]

MCFiles ==
    {[c \in {Root} \union cs |-> IF c = Root THEN r ELSE n] :
        cs \in SUBSET Names,
        r \in Entry({ERROR, NOTICE, DEBUG, NOTSET}, {{"rootAppender"}}),
        n \in Entry({ALERT, NOTSET}, SUBSET Appenders)}

================================================================================
