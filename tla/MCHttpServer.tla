---------------------------- MODULE MCHttpServer ----------------------------
(* HttpServer on small instances.                                          *)
EXTENDS HttpServer
=============================================================================
