--------------------------- MODULE MCCameraCore ---------------------------
(* Model-checking instance of CameraCore.  Models is a set of model values  *)
(* with symmetry; two suffice for a driver and abilities that disagree.     *)
EXTENDS CameraCore, TLC

ModelSymmetry == Permutations(Models)
=============================================================================
