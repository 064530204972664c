---------------------------- MODULE Dependencies ---------------------------
(***************************************************************************)
(* dependencies.hpp and dependencies.cpp: what a section of a feed depends *)
(* on and conflicts with is recorded while it is parsed, as a flat list of *)
(* entries, and replayed for every implementation.                         *)
(*                                                                         *)
(* The marks of an alternative are IF, ELSEIF, ELSE and ENDIF.  An else or *)
(* elseif takes the place of the last entry, which is the ENDIF of its     *)
(* branch before, if there is one.                                         *)
(***************************************************************************)
EXTENDS Integers, Sequences, FiniteSets, SequencesExt

CONSTANT Evaluate(_, _)   \* Query::evaluate: "true", "false" or "throws"

(***************************************************************************)
(* Recording.  What says the test of a mark, or the url of a dependency.   *)
(***************************************************************************)
Entry(code, what) == [code |-> code, what |-> what]

AppendBranch(deps, code, what) == Append(deps, Entry(code, what))   \* mutant of StartBranch

\* start_if, start_elseif and start_else.  The last entry is replaced whatever it is.
StartBranch(deps, code, what) ==
    IF code = "IF" THEN Append(deps, Entry("IF", what))
    ELSE Append(Front(deps), Entry(code, what))

\* deps.back() of nothing.
NothingToReplace(deps, code) == code # "IF" /\ deps = << >>

EndBranch(deps) == Append(deps, Entry("ENDIF", ""))

(***************************************************************************)
(* Replay.  The stack says of every enclosing branch whether it is taken;  *)
(* "maybe" is the indeterminate of a tribool: neither this branch nor any  *)
(* later one of its alternative.                                           *)
(***************************************************************************)
Replayed == [stack |-> << "true" >>, depends |-> << >>, conflicts |-> << >>, outcome |-> "ok"]

OnTop(s, truth) == [s EXCEPT !.stack = Append(Front(@), truth)]

\* A test is evaluated only if its branch can still be taken.
Tested(s, push, test, build) ==
    LET truth == Evaluate(test, build)
    IN IF truth = "throws" THEN [s EXCEPT !.outcome = "throws"]
       ELSE IF push THEN [s EXCEPT !.stack = Append(@, truth)] ELSE OnTop(s, truth)

ReplayElseAlways(s) ==   \* mutant of ReplayElse: a branch that was skipped as a whole is entered
    IF Last(s.stack) = "true" THEN OnTop(s, "maybe") ELSE OnTop(s, "true")

ReplayElse(s) ==
    CASE Last(s.stack) = "true" -> OnTop(s, "maybe")
      [] Last(s.stack) = "false" -> OnTop(s, "true")
      [] OTHER -> s

ReplayEntry(s, entry, build) ==
    LET top == Last(s.stack) IN
    CASE entry.code = "IF" ->
            IF top = "true" THEN Tested(s, TRUE, entry.what, build)
            ELSE [s EXCEPT !.stack = Append(@, "maybe")]
      [] entry.code = "ELSE" -> ReplayElse(s)
      [] entry.code = "ELSEIF" ->
            CASE top = "true" -> OnTop(s, "maybe")
              [] top = "false" -> Tested(s, FALSE, entry.what, build)
              [] OTHER -> s
      [] entry.code = "ENDIF" -> [s EXCEPT !.stack = Front(@)]
      [] entry.code = "DEPENDS" ->
            IF top = "true" THEN [s EXCEPT !.depends = Append(@, entry.what)] ELSE s
      [] entry.code = "CONFLICTS" ->
            IF top = "true" THEN [s EXCEPT !.conflicts = Append(@, entry.what)] ELSE s

\* Entries of one section, replayed on top of what others have collected.  A mark
\* without its IF has popped the last truth: there is no top to look at.
ReplayOnto(s, deps, build) ==
    LET step(acc, entry) ==
            IF acc.outcome # "ok" THEN acc
            ELSE IF acc.stack = << >> THEN [acc EXCEPT !.outcome = "undefined"]
            ELSE ReplayEntry(acc, entry, build)
    IN FoldLeft(step, [s EXCEPT !.stack = << "true" >>], deps)

AllComponents == "*"   \* stands for every component of a project

\* What an implementation of a component collects from all sections, by name.
Replay(sections, component, build) ==
    LET step(acc, section) ==
            IF acc.outcome # "ok" \/ component \notin {section.name, AllComponents} THEN acc
            ELSE ReplayOnto(acc, section.deps, build)
    IN FoldLeft(step, Replayed, sections)
=============================================================================
