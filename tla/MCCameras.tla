----------------------------- MODULE MCCameras ------------------------------
(* A device with two streams, two threads that save, the weather worker.     *)
EXTENDS Cameras
CONSTANT door
MCFound == { [host |-> door, kind |-> "jpeg"], [host |-> door, kind |-> "h264"] }
=============================================================================
