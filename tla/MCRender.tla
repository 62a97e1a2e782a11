------------------------------ MODULE MCRender ------------------------------
(* Small images and few workers for Render: see the .cfg files.            *)
EXTENDS RenderProps
=============================================================================
