\* Two sockets, one incoming-connection sock, two remote peers.
CONSTANTS
    s1 = s1
    s2 = s2
    c1 = c1
    r1 = r1
    r2 = r2
    NoPeer = NoPeer
    NoSk = NoSk
    NoSock = NoSock
    Socks <- MCSocks
    Conns <- MCConns
    Peers <- MCPeers
    ReqFails = TRUE
    SapBusy = TRUE
    NullMacs = {FALSE, TRUE}
    MaxQueue = 1
SPECIFICATION FairSpec
INVARIANTS TypeOK ListSound ConnHandedOnce
PROPERTIES ConnectSettles
