-------------------------- MODULE MCRaceDebounce --------------------------
(* One lane, a meet of two heats and one heat the meet does not list.     *)
EXTENDS RaceDebounce

CONSTANTS h1, h2

MCRunningOrder == <<h1, h2>>
=============================================================================
