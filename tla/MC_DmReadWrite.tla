---------------------------- MODULE MC_DmReadWrite ----------------------------
EXTENDS DmReadWrite

CONSTANTS s1, s2, c1, c2

MCConns == {c1, c2}
MCServers == {s1, s2}
MCListed == <<s1, s2>>
MCModes == {(s1 :> "standby" @@ s2 :> "primary")}
Conf(login, first, again, apart, o, n) ==
  [loginMode |-> login, headFirst |-> first, reconnects |-> again, separate |-> apart,
   schema |-> apart /\ again, rwHA |-> apart, opens |-> o, calls |-> n]
Each(a, b) == (c1 :> a @@ c2 :> b)
MCConfs == {Conf("primaryOnly", FALSE, TRUE, TRUE, Each(1, 0), Each(3, 0)),
            Conf("primaryOnly", FALSE, TRUE, TRUE, Each(1, 1), Each(1, 0)),
            Conf("primaryOnly", TRUE, FALSE, TRUE, Each(1, 1), Each(2, 0)),
            Conf("standbyFirst", TRUE, TRUE, FALSE, Each(1, 1), Each(2, 0)),
            Conf("primaryFirst", FALSE, TRUE, FALSE, Each(1, 1), Each(0, 0))}
=============================================================================
