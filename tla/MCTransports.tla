---------------------------- MODULE MCTransports ----------------------------
EXTENDS MirrorTransports

SomeOrders == {<<"stdin", "websocket">>, <<"tcp", "websocket">>}

TcpAlone == {<<"tcp">>}
=============================================================================
