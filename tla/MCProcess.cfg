\* Environments that differ from the defaults in one respect, one request, and a
\* session with the default read timeout of 60 seconds or a shorter one.
CONSTANTS
    MaxPingDelay = 2
    MaxRoundTrip = 3
    MaxBusy = 3
    MaxFrames = 2
    Envs <- SomeEnvs
    Headers <- SomeHeaders
SPECIFICATION ProcessSpec
INVARIANTS ServesSoundConfig OnlyConfiguredOrigins ResponsiveStaysConnected SilentIsDisconnected
