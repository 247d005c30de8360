------------------------------ MODULE MCBatch ------------------------------
(* Small instances of Batch: two inputs of different names, the second of   *)
(* the newer cipher, with keys that only upstream lists.                    *)
EXTENDS Batch, TLC

CONSTANTS s1, s2

MCStems == {s1, s2}
MCInputs == <<s1, s2>>
MCStreamFiles == {2}

Line(nc, se, fl, enc) ==
    [noCleanup |-> nc, skipExisting |-> se, flat |-> fl, encode |-> enc]

\* -f -vs, for the run about commands
EncodeLine == {Line(FALSE, FALSE, TRUE, TRUE)}

\* -se -vs, and -se -f -nc, for the run about the disk
DiskLines == {Line(FALSE, TRUE, FALSE, TRUE), Line(TRUE, TRUE, TRUE, FALSE)}

NewOnly == {"new"}
NoneOrNew == {"none", "new"}
AbsentOrLocal == {"absent", "local"}
BrokenOrLocal == {"broken", "local"}
Video == {"ivf"}
VideoAndAudio == {"ivf", "hca"}

OneStem == {s1}
OneInput == <<s1>>
NoFiles == {}
NoPlaces == {}
OnePlace == {<<FALSE, s1>>}
=============================================================================
