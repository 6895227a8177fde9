---------------------------- MODULE MCNativeLink ----------------------------
(* NativeLink on small instances: the slots are model values. *)
EXTENDS NativeLink

\* parse_mode as the loop over the arguments that it is in the code.
ParseLoop(args) ==
  LET Step(m, arg) == CASE m = "echo" \/ arg = "--echo" -> "echo"
                        [] arg = "--mode=bridge"        -> "bridge"
                        [] OTHER                        -> "bootstrap"
  IN FoldLeft(Step, "bridge", args)

ASSUME ParseModeIsLoop ==
  LET Arg == {"--echo", "--mode=bridge", "--mode=bootstrap", "manifest"}
  IN \A n \in 0..4 : \A args \in [1..n -> Arg] : ParseMode(args) = ParseLoop(args)
=============================================================================
