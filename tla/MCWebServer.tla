------------------------------ MODULE MCWebServer ------------------------------
(***************************************************************************)
(* A small instance of WebServer: two web threads, two requests each.      *)
(***************************************************************************)
EXTENDS WebServer

CONSTANTS t1, t2   \* the web threads

MCHandlers == {"WebMessageQueue", "Timer"}
MCThreads  == {t1, t2}
==============================================================================
