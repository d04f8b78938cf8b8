---------------------------- MODULE MCHttpServer ----------------------------
(* Two clients with two requests each.                                      *)
EXTENDS HttpServer
=============================================================================
