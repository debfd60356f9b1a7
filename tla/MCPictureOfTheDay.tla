-------------------------- MODULE MCPictureOfTheDay ---------------------------
(* PictureOfTheDay for TLC.                                                  *)
EXTENDS PictureOfTheDay
=============================================================================
