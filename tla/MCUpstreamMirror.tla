-------------------------- MODULE MCUpstreamMirror --------------------------
EXTENDS UpstreamMirror
CONSTANTS s1, p1, p2, h1, h2, network, ssh, i1, i2, t1, t2, t3
=============================================================================
