-------------------------- MODULE MCCameraFilesys ---------------------------
(* Model-checking instance of CameraFilesys: one file name in each of three *)
(* nested folders, so that with Keep = 1 a third download prunes the first. *)
EXTENDS CameraFilesys
=============================================================================
