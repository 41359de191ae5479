------------------------------ MODULE MCRooms ------------------------------
(* Three people, a group and a roll in it, and two calls at once.              *)
EXTENDS Rooms, TLC

CONSTANTS p1, p2, p3

MCPeople == {p1, p2, p3}
=============================================================================
