------------------------ MODULE MCBlockGenerator ------------------------
(* Small images for BlockGenerator: see the .cfg files.                    *)
EXTENDS BlockGeneratorProps
=============================================================================
