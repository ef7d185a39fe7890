----------------------------- MODULE MCChannels -----------------------------
EXTENDS Channels

=============================================================================
