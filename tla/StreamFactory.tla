--------------------------- MODULE StreamFactory ---------------------------
(***************************************************************************)
(* StreamFactory::createInputStream: a file of a model is the first that   *)
(* opens of four.  Files are found one by one, so that one model may come  *)
(* from several places.  A file is a sequence of lines; of a damaged       *)
(* archive readLine returns those before the damage and then ends, as if   *)
(* there were no more.                                                     *)
(***************************************************************************)
EXTENDS Sequences, Naturals

(* Mutant: the shared directory comes before the local archive.            *)
PlacesByFormat == <<"text", "sharedText", "gzip", "sharedGzip">>

Places == <<"text", "gzip", "sharedText", "sharedGzip">>

(* Of files, a function from some of the places.                           *)
CanOpen(files) == DOMAIN files # {}

Opened(files) ==
  files[Places[CHOOSE i \in DOMAIN Places :
    Places[i] \in DOMAIN files /\ \A j \in 1..(i - 1) : Places[j] \notin DOMAIN files]]
=============================================================================
