SPECIFICATION FairSpec
CONSTANT MAX_RUNS = 3
INVARIANT TypeOK
INVARIANT SocketsReleased
INVARIANT MQTTAlive
INVARIANT NoCallbackAfterDelete
INVARIANT NeverStuck
PROPERTY TerminationObeyed
PROPERTY HangupObeyed
