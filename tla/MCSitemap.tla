----------------------------- MODULE MCSitemap -----------------------------
(* Three clients, so that an array of two entries overflows, and two       *)
(* server processes, so that one meets the other's lock.                   *)
EXTENDS Sitemap
=============================================================================
