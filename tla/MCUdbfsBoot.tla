------------------------------ MODULE MCUdbfsBoot ------------------------------
(* Devices around the edges of the layout, and tables of every depth. *)
EXTENDS UdbfsBoot

Of(w, n)   == [type |-> w, size |-> n, count |-> 1]

Mixed == <<Of("int1", 3), Of("int128", 1), Of("int2", 5), Of("shareddata", 1),
           Of("int4", 1), [type |-> "enumeration", size |-> 7, count |-> 3],
           Of("int8", 3), Of("float", 1), Of("int16", 1)>>

MCTables == {RootTable, Mixed, <<Of("int1", 1)>>, [k \in 1 .. 60 |-> Ints(1)]}

Dev(k, n, a) == [kind |-> k, bytes |-> n, asked |-> a]

MCDevices == {Dev("file", 60 * 256, 0), Dev("file", 64 * 256, 0),
              Dev("block", 33 * 512, 0), Dev("block", 1474560, 0),
              Dev("block", 8602112, 0), Dev("file", 20480, 0), Dev("file", 1990 * 256, 0),
              Dev("file", 1023999, 0), Dev("file", 1024000, 0), Dev("file", 9000000, 2048000),
              Dev("file", 8192000, 0), Dev("file", 4096000, 0)}
=============================================================================
