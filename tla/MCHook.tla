-------------------------------- MODULE MCHook --------------------------------
(* Instances of Hook for TLC.  The runs check temporal properties, for which *)
(* the symmetry of fibers and descriptors would not be sound.                *)
EXTENDS Hook
================================================================================
