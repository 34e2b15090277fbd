\* A block that has been changed is not changed again: the readout half stops.
SPECIFICATION Spec
CONSTANTS
    Chips = {"bmp581", "opt4048", "as7343", "bmm350", "bme690", "mlx90640"}
    Settings <- MCSettings
    Durations = {0, 1, 63, 64, 252, 255, 256, 1007, 1008, 1020, 1024, 4031, 4032, 5000, 65535}
    Blocks = {"bmp581_measurement", "bmp581_oversampling", "bmm350_measurement", "bmm350_otp", "bmm350_status", "bme690_calibration", "bme690_field", "as7343_measurement", "opt4048_measurement", "opt4048_flags", "mlx90640_status", "mlx90640_eeprom"}
    Answers = {"sht41", "scd41_word", "scd41", "sps30_flag", "sps30"}
    PixelCount = 6
    MaxDeviating = 2
    Sampled <- MCSampled
CHECK_DEADLOCK FALSE
INVARIANT RegistersAreKept
INVARIANT OnlyGoodDataIsUsed
PROPERTY EachBitCountsOnce
PROPERTY CorrectionsStayInTheirLine
