----------------------------- MODULE MCSensors -----------------------------
(***************************************************************************)
(* A thermometer and a flame sensor, with a ring of three and an idx that  *)
(* wraps at eight, not a multiple of three, as 256 is none of ten.         *)
(***************************************************************************)
EXTENDS Sensors, TLC

MCReadings == "temp" :> {0, 1} @@ "flame" :> {0, 1}
=============================================================================
