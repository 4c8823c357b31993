---------------------------- MODULE MCInitService ----------------------------
(* Instances of InitService: a critical daemon that restarts a oneshot       *)
(* service with it, as the rc files do with zygote and media.                *)
EXTENDS InitService

CONSTANTS zygote, media, main

MCClassOf == [s \in {zygote, media} |-> main]
MCOnRestart == [s \in {zygote, media} |->
                 IF s = zygote THEN <<<<"restart", media>>>> ELSE <<>>]
\* One service alone.
OneClassOf == [s \in {zygote} |-> main]
OneOnRestart == [s \in {zygote} |-> <<>>]

MCBoot == <<<<"class_start", main>>, <<"property_service_init">>, <<"signal_init">>>>
MCTriggers == {<<"class_start", main>>, <<"class_stop", main>>,
               <<"class_reset", main>>}
MCNoTriggers == {}
=============================================================================
