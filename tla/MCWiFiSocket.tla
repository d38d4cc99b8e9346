---------------------------- MODULE MCWiFiSocket ----------------------------
(* WiFiSocket with two sockets, for model checking.                        *)
EXTENDS WiFiSocket
=============================================================================
