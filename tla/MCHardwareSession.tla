-------------------------- MODULE MCHardwareSession --------------------------
(* Small instances of HardwareSession for TLC.                               *)
EXTENDS HardwareSession

\* A joint whose public domain is -1 .. 11, calibrated to 0 .. 10 with an inset
\* of 1; it may start inside, in the margin, or outside the calibration.
MCStartPositions == {-1, 0, 4, 9}

\* Actions far below and above, in the margin, and outside the public domain.
MCActions == {0, 5, 11, 12}
MCNormLower == -1

\* Statements whose enclosing handlers clean up after an interrupt.
MCGuarded == {"setup", "preload", "verify", "arm", "check", "observe", "receive",
              "timeout", "process"}
MCStarted == {"started"}
=============================================================================
