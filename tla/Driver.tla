-------------------------------- MODULE Driver --------------------------------
(***************************************************************************)
(* main (nsgenbind.c): the stages of one run of the tool around the output *)
(* of LibdomOutput, and the exit code by which make learns how it went.    *)
(* What a stage does with its input is the business of the modules on the  *)
(* two syntax trees and the maps; here it succeeds or fails, and the map   *)
(* of LibdomOutput is the one that the ir stage will have made.            *)
(***************************************************************************)
EXTENDS LibdomOutput

VARIABLES
  bindingtype,  \* "unknown", "jsapi" or "duk", Null until it is looked up
  stage,        \* what main does next, "exited", or "killed" by a signal
  exit          \* exit code, Null before the end

driver == <<bindingtype, stage, exit>>

-----------------------------------------------------------------------------
DriverInit == /\ Init
              /\ bindingtype = Null
              /\ stage = "cmdline"
              /\ exit = Null

Exit(code) == /\ stage' = "exited"
              /\ exit' = code
              /\ UNCHANGED <<vars, bindingtype>>

(* main goes from one stage to another *)
Step(from, to) == /\ stage = from
                  /\ stage' = to
                  /\ UNCHANGED <<vars, bindingtype, exit>>

ProcessCmdline == \/ Step("cmdline", "binding")
                  \/ stage = "cmdline" /\ Exit(1)

(* no input file, or whatever the parser returns *)
ParseBinding == \/ Step("binding", "type")
                \/ stage = "binding" /\ \E res \in 1 .. 3 : Exit(res)

GetType == /\ stage = "type"
           /\ \E t \in {"unknown", "jsapi", "duk"} :
                /\ bindingtype' = t
                /\ IF t = "unknown" THEN stage' = "exited" /\ exit' = 3
                                    ELSE stage' = "webidl" /\ UNCHANGED exit
           /\ UNCHANGED vars

LoadIdl == \/ Step("webidl", "ir")
           \/ stage = "webidl" /\ Exit(4)

IrNew == \/ Step("ir", "output")
         \/ stage = "ir" /\ Exit(5)

UnableToGenerate == stage = "output" /\ bindingtype # "duk" /\ Exit(7)

(* duk_libdom_output *)
Output == /\ stage = "output" /\ bindingtype = "duk"
          /\ Next
          /\ UNCHANGED driver

(* mistake: the result of the back end is not that of the tool *)
OutputEndRegardless ==
  /\ stage = "output"
  /\ \/ pc \in {"done", "failed"} /\ Exit(0)
     \/ pc = "crashed" /\ Step("output", "killed")

(* res, -1 of a failed output included, is the exit code; a header that
   cannot be opened ends in a signal.  Output that was lost on its way to the
   disk makes no difference to res. *)
OutputEnd == /\ stage = "output"
             /\ \/ pc = "done" /\ Exit(0)
                \/ pc = "failed" /\ Exit(255)
                \/ pc = "crashed" /\ Step("output", "killed")

DriverNext == \/ ProcessCmdline \/ ParseBinding \/ GetType \/ LoadIdl \/ IrNew
              \/ UnableToGenerate \/ Output \/ OutputEnd

-----------------------------------------------------------------------------
(* make only knows the exit code.  0 means that the generator got to its end:
   all classes, headers, binding.c and the Makefile are of this run, and none
   was left off, whatever of them was lost on the way to the disk.  A run
   stopped by its input, 1 to 7, has touched no file. *)
ExitTellsOutcome ==
  stage \in {"exited", "killed"} =>
    /\ exit = 0 <=> makefile # Null
    /\ exit = 0 => /\ Null \notin {private, prototype, binding_h, binding}
                   /\ \A k \in Idx : Generated(k) <=> source[k] # Null
                   /\ \A k \in Idx : Generated(k) => ~source[k].torn
    /\ exit \in 1 .. 7 =>
         files = <<[k \in Idx |-> Null], Null, Null, Null, Null, Null>> /\ ~lost

(* What make makes of it, that the files of a run with exit code 0 are on the
   disk, does not hold: nobody looks at the result of a write or a rename. *)
ExitMeansOnDisk == exit = 0 => ~lost
=============================================================================
