------------------------------- MODULE Pinmux -------------------------------
(***************************************************************************)
(* source/pinmux.c and include/pinmux.h: which function each pad carries is *)
(* the lowest field of a register of its own.  A selection is a pair of a   *)
(* pad and a function; pinmux_config() makes the selections of one mode.    *)
(***************************************************************************)
EXTENDS Integers, PadsCv1800b, PadsSg2002

\* The board is a build option, CONFIG_BOARD_DUO or CONFIG_BOARD_DUO256.
Boards == {"duo", "duo256"}
Pads == [duo |-> DuoPads, duo256 |-> Duo256Pads]
Functions == [duo |-> DuoFunctions, duo256 |-> Duo256Functions]

PadSet == [b \in Boards |-> DOMAIN Functions[b]]

\* FMUX_GPIO_FUNCSEL_##PIN_NAME, in bytes; PINMUX_OFFSET is 0 and PINMUX_MASK is 7 for every pad.
Register(b, p) == 4 * ((CHOOSE j \in DOMAIN Pads[b] : Pads[b][j] = p) - 1)
RegisterOf == [b \in Boards |-> [p \in PadSet[b] |-> Register(b, p)]]

\* PINMUX_VALUE(PIN_NAME, FUNC_NAME)
Value(b, p, f) == (CHOOSE v \in DOMAIN Functions[b][p] : Functions[b][p][v] = f) - 1

\* What the headers let a program select.
Selections(b) == UNION {{<<p, f>> : f \in {Functions[b][p][v] : v \in DOMAIN Functions[b][p]} \ {""}} :
                           p \in PadSet[b]}

\* The function that a register with this word gives its pad.
Selected(b, p, word) ==
    LET v == (word % 8) + 1
    IN  IF v \in DOMAIN Functions[b][p] /\ Functions[b][p][v] # "" THEN Functions[b][p][v] ELSE "none"

\* Fault: mmio_setbits_32(), which does not clear the old value.
FaultSetBits(word, value) ==
    LET bit(w, j) == (w \div 2^j) % 2
        either(j) == IF bit(word, j) + bit(value, j) > 0 THEN 2^j ELSE 0
    IN  8 * (word \div 8) + either(0) + either(1) + either(2)

\* mmio_clrsetbits_32() with a mask of 7 and a value within it
ClrSetBits(word, value) == 8 * (word \div 8) + value

\* PINMUX_CONFIG(PIN_NAME, FUNC_NAME) on the registers
PINMUX_CONFIG(b, funcsel, s) ==
    [funcsel EXCEPT ![RegisterOf[b][s[1]]] = ClrSetBits(@, Value(b, s[1], s[2]))]

-----------------------------------------------------------------------------
\* PINMUX_UART0 to PINMUX_SPI_NOR1
IoTypes == {
    "UART0", "UART1", "UART2", "UART3", "UART3_2", "I2C0", "I2C1", "I2C2", "I2C3", "I2C4",
    "I2C4_2", "SPI0", "SPI1", "SPI2", "SPI2_2", "SPI3", "SPI3_2", "I2S0", "I2S1", "I2S2",
    "I2S3", "USBID", "SDIO0", "SDIO1", "ND", "EMMC", "SPI_NOR", "SPI_NAND", "CAM0", "CAM1",
    "PCM0", "PCM1", "CSI0", "CSI1", "CSI2", "DSI", "VI0", "VO", "PWM1", "UART4", "SPI_NOR1"}

\* pinmux_config() of the Duo.  (SDIO1 selects nothing unless SDIO1_1ST_PAD or SDIO1_2ND_PAD
\* is defined, and neither is.)
DuoSerialModes == [
    UART0 |-> <<>>,
    UART1 |-> <<
        <<"UART0_TX", "UART1_TX">>, <<"UART0_RX", "UART1_RX">> >>,
    UART2 |-> <<
        <<"IIC0_SCL", "UART2_TX">>, <<"IIC0_SDA", "UART2_RX">> >>,
    I2C0 |-> <<
        <<"IIC0_SDA", "IIC0_SDA">>, <<"IIC0_SCL", "IIC0_SCL">> >>,
    I2C1 |-> <<
        <<"SD1_D1", "IIC1_SDA">>, <<"SD1_D2", "IIC1_SCL">> >>,
    I2C3 |-> <<
        <<"SD1_CMD", "IIC3_SCL">>, <<"SD1_CLK", "IIC3_SDA">> >>,
    CAM0 |-> <<
        <<"SD0_D0", "CAM_MCLK1">>, <<"SD0_D3", "CAM_MCLK0">> >>,
    SPI0 |-> <<
        <<"SD0_CLK", "SPI0_SCK">>, <<"SD0_D3", "SPI0_CS_X">>, <<"SD0_D0", "SPI0_SDI">>,
        <<"SD0_CMD", "SPI0_SDO">> >>,
    SPI2 |-> <<
        <<"SD1_CLK", "SPI2_SCK">>, <<"SD1_D3", "SPI2_CS_X">>, <<"SD1_D0", "SPI2_SDI">>,
        <<"SD1_CMD", "SPI2_SDO">> >>,
    I2S1 |-> <<
        <<"PAD_AUD_AOUTR", "IIS1_DI">>, <<"AUX0", "IIS1_MCLK">>,
        <<"PAD_AUD_AINR_MIC", "IIS1_DO">>, <<"PAD_AUD_AINL_MIC", "IIS1_BCLK">>,
        <<"PAD_AUD_AOUTL", "IIS1_LRCK">> >>,
    I2S2 |-> <<
        <<"PAD_ETH_RXM", "IIS2_DI">>, <<"GPIO_RTX", "IIS2_MCLK">>, <<"PAD_ETH_RXP", "IIS2_DO">>,
        <<"PAD_ETH_TXM", "IIS2_BCLK">>, <<"PAD_ETH_TXP", "IIS2_LRCK">> >>]

DuoStorageModes == [
    SDIO0 |-> <<
        <<"SD0_CD", "SDIO0_CD">>, <<"SD0_PWR_EN", "SDIO0_PWR_EN">>, <<"SD0_CMD", "SDIO0_CMD">>,
        <<"SD0_CLK", "SDIO0_CLK">>, <<"SD0_D0", "SDIO0_D_0">>, <<"SD0_D1", "SDIO0_D_1">>,
        <<"SD0_D2", "SDIO0_D_2">>, <<"SD0_D3", "SDIO0_D_3">> >>,
    SDIO1 |-> <<>>,
    EMMC |-> <<>>,
    SPI_NOR |-> <<
        <<"SPINOR_SCK", "SPINOR_SCK">>, <<"SPINOR_MISO", "SPINOR_MISO">>,
        <<"SPINOR_CS_X", "SPINOR_CS_X">>, <<"SPINOR_MOSI", "SPINOR_MOSI">>,
        <<"SPINOR_HOLD_X", "SPINOR_HOLD_X">>, <<"SPINOR_WP_X", "SPINOR_WP_X">> >>,
    SPI_NAND |-> <<
        <<"SPINOR_SCK", "SPINAND_CLK">>, <<"SPINOR_MISO", "SPINAND_MISO">>,
        <<"SPINOR_CS_X", "SPINAND_CS">>, <<"SPINOR_MOSI", "SPINAND_MOSI">>,
        <<"SPINOR_HOLD_X", "SPINAND_HOLD">>, <<"SPINOR_WP_X", "SPINAND_WP">> >>,
    SPI_NOR1 |-> <<
        <<"SD1_D3", "PWR_SPINOR1_CS_X">>, <<"SD1_D2", "PWR_SPINOR1_HOLD_X">>,
        <<"SD1_D1", "PWR_SPINOR1_WP_X">>, <<"SD1_D0", "PWR_SPINOR1_MISO">>,
        <<"SD1_CMD", "PWR_SPINOR1_MOSI">>, <<"SD1_CLK", "PWR_SPINOR1_SCK">> >>]

\* pinmux_config() of the Duo256
Duo256SerialModes == [
    UART0 |-> <<>>,
    UART1 |-> <<
        <<"UART0_TX", "UART1_TX">>, <<"UART0_RX", "UART1_RX">> >>,
    UART2 |-> <<
        <<"UART2_TX", "UART2_TX">>, <<"UART2_RX", "UART2_RX">> >>,
    I2C0 |-> <<
        <<"IIC0_SDA", "IIC0_SDA">>, <<"IIC0_SCL", "IIC0_SCL">> >>,
    I2C1 |-> <<
        <<"SD1_D1", "IIC1_SDA">>, <<"SD1_D2", "IIC1_SCL">> >>,
    I2C3 |-> <<
        <<"IIC3_SCL", "IIC3_SCL">>, <<"IIC3_SDA", "IIC3_SDA">> >>,
    CAM0 |-> <<
        <<"SD0_D0", "CAM_MCLK1">>, <<"SD0_D3", "CAM_MCLK0">> >>,
    SPI0 |-> <<
        <<"SD0_CLK", "SPI0_SCK">>, <<"SD0_D3", "SPI0_CS_X">>, <<"SD0_D0", "SPI0_SDI">>,
        <<"SD0_CMD", "SPI0_SDO">> >>,
    SPI2 |-> <<
        <<"SD1_CLK", "SPI2_SCK">>, <<"SD1_D3", "SPI2_CS_X">>, <<"SD1_D0", "SPI2_SDI">>,
        <<"SD1_CMD", "SPI2_SDO">> >>,
    I2S1 |-> <<
        <<"PAD_AUD_AOUTR", "IIS1_DI">>, <<"AUX0", "IIS1_MCLK">>,
        <<"PAD_AUD_AINR_MIC", "IIS1_DO">>, <<"PAD_AUD_AINL_MIC", "IIS1_BCLK">>,
        <<"PAD_AUD_AOUTL", "IIS1_LRCK">> >>,
    I2S2 |-> <<
        <<"UART2_RX", "IIS2_DI">>, <<"IIC2_SDA", "IIS2_MCLK">>, <<"UART2_RTS", "IIS2_DO">>,
        <<"UART2_TX", "IIS2_BCLK">>, <<"UART2_CTS", "IIS2_LRCK">> >>]

Duo256StorageModes == [
    SDIO0 |-> <<
        <<"SD0_CD", "SDIO0_CD">>, <<"SD0_PWR_EN", "SDIO0_PWR_EN">>, <<"SD0_CMD", "SDIO0_CMD">>,
        <<"SD0_CLK", "SDIO0_CLK">>, <<"SD0_D0", "SDIO0_D_0">>, <<"SD0_D1", "SDIO0_D_1">>,
        <<"SD0_D2", "SDIO0_D_2">>, <<"SD0_D3", "SDIO0_D_3">> >>,
    SDIO1 |-> <<>>,
    EMMC |-> <<
        <<"EMMC_CLK", "EMMC_CLK">>, <<"EMMC_RSTN", "EMMC_RSTN">>, <<"EMMC_CMD", "EMMC_CMD">>,
        <<"EMMC_DAT1", "EMMC_DAT_1">>, <<"EMMC_DAT0", "EMMC_DAT_0">>,
        <<"EMMC_DAT2", "EMMC_DAT_2">>, <<"EMMC_DAT3", "EMMC_DAT_3">> >>,
    SPI_NOR |-> <<
        <<"EMMC_CLK", "SPINOR_SCK">>, <<"EMMC_CMD", "SPINOR_MISO">>,
        <<"EMMC_DAT1", "SPINOR_CS_X">>, <<"EMMC_DAT0", "SPINOR_MOSI">>,
        <<"EMMC_DAT2", "SPINOR_HOLD_X">>, <<"EMMC_DAT3", "SPINOR_WP_X">> >>,
    SPI_NAND |-> <<
        <<"EMMC_CLK", "SPINAND_CLK">>, <<"EMMC_CMD", "SPINAND_MISO">>,
        <<"EMMC_DAT1", "SPINAND_CS">>, <<"EMMC_DAT0", "SPINAND_MOSI">>,
        <<"EMMC_DAT2", "SPINAND_HOLD">>, <<"EMMC_DAT3", "SPINAND_WP">> >>]

Duo256PanelModes == [
    VO |-> <<
        <<"PAD_MIPI_TXP2", "VO_CLK0">>, <<"VIVO_CLK", "VO_CLK1">>,
        <<"PAD_MIPI_TXM2", "VO_D_0">>, <<"PAD_MIPI_TXP1", "VO_D_1">>,
        <<"PAD_MIPI_TXM1", "VO_D_2">>, <<"PAD_MIPI_TXP0", "VO_D_3">>,
        <<"PAD_MIPI_TXM0", "VO_D_4">>, <<"PAD_MIPIRX0P", "VO_D_5">>,
        <<"PAD_MIPIRX0N", "VO_D_6">>, <<"PAD_MIPIRX1P", "VO_D_7">>,
        <<"PAD_MIPIRX1N", "VO_D_8">>, <<"PAD_MIPIRX2P", "VO_D_9">>,
        <<"PAD_MIPIRX2N", "VO_D_10">>, <<"PAD_MIPIRX5P", "VO_D_11">>,
        <<"PAD_MIPIRX5N", "VO_D_12">>, <<"VIVO_D0", "VO_D_13">>, <<"VIVO_D1", "VO_D_14">>,
        <<"VIVO_D2", "VO_D_15">>, <<"VIVO_D3", "VO_D_16">>, <<"VIVO_D4", "VO_D_17">>,
        <<"VIVO_D5", "VO_D_18">>, <<"VIVO_D6", "VO_D_19">>, <<"VIVO_D7", "VO_D_20">>,
        <<"VIVO_D8", "VO_D_21">>, <<"VIVO_D9", "VO_D_22">>, <<"VIVO_D10", "VO_D_23">>,
        <<"PAD_MIPI_TXP4", "VO_D_25">>, <<"PAD_MIPI_TXM3", "VO_D_26">>,
        <<"PAD_MIPI_TXP3", "VO_D_27">> >>,
    SPI_NOR1 |-> <<
        <<"SD1_D3", "PWR_SPINOR1_CS_X">>, <<"SD1_D2", "PWR_SPINOR1_HOLD_X">>,
        <<"SD1_D1", "PWR_SPINOR1_WP_X">>, <<"SD1_D0", "PWR_SPINOR1_MISO">>,
        <<"SD1_CMD", "PWR_SPINOR1_MOSI">>, <<"SD1_CLK", "PWR_SPINOR1_SCK">> >>]

Modes == [duo |-> DuoSerialModes @@ DuoStorageModes,
          duo256 |-> Duo256SerialModes @@ Duo256StorageModes @@ Duo256PanelModes]

\* The selections of a mode, in the order they are made; other modes of IoTypes have no case.
pinmux_config(b, io) == IF io \in DOMAIN Modes[b] THEN Modes[b][io] ELSE <<>>
=============================================================================
