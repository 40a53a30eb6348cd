---------------------------- MODULE MCApplication ---------------------------
(***************************************************************************)
(* Small instances of Application.tla for TLC.                             *)
(***************************************************************************)
EXTENDS Application, TLC

\* The services of main.cpp: DatabaseManager, ConfigManager,
\* HttpServerManager, GarbageManager.
AsyncServices == {2, 3, 4}
DatabaseAndConfig == {1, 2}
=============================================================================
