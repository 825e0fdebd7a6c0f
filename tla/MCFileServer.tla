---------------------------- MODULE MCFileServer ----------------------------
EXTENDS FileServer
MCFlags == {{"O_CREAT"}, {"O_TRUNC"}}
=============================================================================
