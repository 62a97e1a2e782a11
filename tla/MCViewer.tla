------------------------------ MODULE MCViewer ------------------------------
(* Few scenes and images for Viewer: see the .cfg files.                   *)
EXTENDS ViewerProps
=============================================================================
