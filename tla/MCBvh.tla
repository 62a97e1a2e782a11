-------------------------------- MODULE MCBvh --------------------------------
(* Small meshes for Bvh: see the .cfg files.                               *)
EXTENDS BvhProps

(* A small triangle in a corner, one opposite to it, one that spans both,  *)
(* a high one and a flat one: boxes are split along either axis.           *)
MCTriangles ==
  {<< <<0, 0>>, <<1, 0>>, <<0, 1>> >>, << <<3, 2>>, <<2, 2>>, <<3, 1>> >>,
   << <<0, 0>>, <<0, 2>>, <<3, 1>> >>, << <<0, 1>>, <<1, 2>>, <<0, 2>> >>,
   << <<1, 1>>, <<2, 1>>, <<3, 1>> >>}

(* Two triangles of the side of a cone, base below, apex above: every      *)
(* centroid is nearer to the base.                                         *)
MCCone ==
  {<< <<0, 0>>, <<1, 0>>, <<1, 3>> >>, << <<1, 0>>, <<2, 0>>, <<1, 3>> >>}
=============================================================================
